---------------------------- MODULE Spec2Model ----------------------------
(***************************************************************************)
(* The ingestion-and-ranking pipeline of the route handler POST            *)
(* (src/app/page.tsx, lines 695-990): request validation, the repository   *)
(* cache, the rate-limited fetcher, pagination, the enrichment workers,    *)
(* the batch loop and the response stream.                                 *)
(*                                                                         *)
(* JavaScript runs one callback at a time, so one action is the code that  *)
(* runs between two suspension points (an upstream response, a timer):     *)
(* the callback itself and every continuation it resumes synchronously.    *)
(* A write to the response stream takes its place in the stream when it is *)
(* called; whether the consumer is still there is decided at that write.   *)
(* The clock is read only by Date.now(); the time that passed since the    *)
(* last reading is chosen when it is read.                                 *)
(***************************************************************************)
EXTENDS Integers, Sequences, FiniteSets, TLC

(***************************************************************************)
(* Program constants.                                                      *)
(***************************************************************************)
\* fetchWithRateLimitHandling's default argument maxRetries = 25.
maxRetries == 25
\* RATE_LIMIT_DELAY, in milliseconds.
RATE_LIMIT_DELAY == 15000
\* The pacing delay between two batches, in milliseconds.
BATCH_DELAY == 1000

(***************************************************************************)
(* Bounds.  The first four stand for constants of the code that are too    *)
(* large to enumerate (1000 users, 30 workers, 100 items a page, a TTL of  *)
(* 720,000,000 ms); the model keeps their role and shrinks their value.    *)
(* Clock values are in units of one TTL-scale tick.                        *)
(***************************************************************************)
MAX_USERS_TO_PROCESS == 2
CONCURRENCY_LIMIT == 1
PER_PAGE == 2
CACHE_TTL == 2
\* Ticks that may pass while one request is served.
MaxElapsed == 1
\* Rate-limit failures the upstream raises while one request is served.
MaxRateLimited == 1
\* Other failures the upstream raises while one request is served.
MaxFailures == 1
\* The pagination specification: the longest stargazer list, and the
\* rate-limit failures the upstream raises.
MaxStargazers == 4
MaxPaginateRateLimited == 3
\* The candidates specification: the longest stargazer and fork lists.
MaxStars == 3
MaxForks == 2
\* The scoring specification: the largest count of a profile.
MaxCount == 2

(***************************************************************************)
(* Values.                                                                 *)
(***************************************************************************)
Logins == {"alice", "bob", "carol"}
Kinds == {"user", "repos", "events"}

\* Strings the code takes apart are sequences of characters.
Undefined == <<"undefined">>
UrlOwnerRepo == <<"o", "/", "r">>
UrlTrailingSlash == <<"o", "/", "r", "/">>
UrlEmpty == <<>>
UrlNoOwner == <<"/", "r">>
UrlOneSegment == <<"r">>
Urls == {UrlOwnerRepo, UrlTrailingSlash, UrlEmpty, UrlNoOwner, UrlOneSegment, Undefined}

\* The page before it is mounted: useState('') for apiKey and repoUrl, no
\* key in localStorage.  UserKey is the key a user enters.
NoKey == ""
UserKey == "ghp_user"
\* No other request is calling processUser.
NoPeer ==
  [st |-> "idle", login |-> "", result |-> <<>>,
   calls |-> [kind \in Kinds |-> [st |-> "idle", acc |-> <<>>]],
   last |-> FALSE]

\* No setTimeout of the batch loop is pending and none has fired.
NoPacing == [timer |-> 0, slept |-> 0]

NoPage == [mounted |-> FALSE, apiKey |-> NoKey, githubApiKey |-> NoKey, repoUrl |-> UrlEmpty]

NoError == ""
StreamClosed == "Stream closed"
MaxRetriesReached == "Max retries reached for rate limit"
NotFound == "Not Found"
ConstAssignment == "Assignment to constant variable."
UndefinedRead == "Cannot read properties of undefined (reading 'endsWith')"
WriteFailed == "Invalid state: WritableStream is closed"

\* The three fetch calls of the repository and the three of each login.
RepoGet == <<"repo", "get">>
Stargazers == <<"repo", "stargazers">>
Forks == <<"repo", "forks">>
RepoCalls == {RepoGet, Stargazers, Forks}
UserCall(login, kind) == <<login, kind>>
CallIds == RepoCalls \cup (Logins \X Kinds)
IsUserCall(c) == c[1] \in Logins

Min(a, b) == IF a <= b THEN a ELSE b

\* F of the value of e, which is computed once, however often F uses it.
Let(e, F(_)) == CHOOSE r \in {F(v) : v \in {e}} : TRUE

RECURSIVE SumSeq(_)
SumSeq(q) == IF q = <<>> THEN 0 ELSE Head(q) + SumSeq(Tail(q))

RECURSIVE Flatten(_)
Flatten(qq) == IF qq = <<>> THEN <<>> ELSE Head(qq) \o Flatten(Tail(qq))

RECURSIVE SeqsUpTo(_, _)
SeqsUpTo(S, n) ==
  IF n = 0 THEN {<<>>}
  ELSE LET shorter == SeqsUpTo(S, n - 1)
       IN shorter \cup {Append(q, x) : q \in shorter, x \in S}

(***************************************************************************)
(* The upstream API.  What GitHub answers for one login is fixed: the user *)
(* object (bio is a string, <<"hi">>, or null, <<>>), the first page of    *)
(* the user's repositories (their star counts) and the first page of the   *)
(* user's public events (their number).                                    *)
(***************************************************************************)
UpstreamUser(login) ==
  CASE login = "alice" -> [login |-> login, bio |-> <<"hi">>,
                           followers |-> 3, following |-> 1,
                           public_repos |-> 2, public_gists |-> 1]
    [] login = "bob"   -> [login |-> login, bio |-> <<>>,
                           followers |-> 1, following |-> 0,
                           public_repos |-> 1, public_gists |-> 0]
    [] OTHER           -> [login |-> login, bio |-> <<>>,
                           followers |-> 1, following |-> 2,
                           public_repos |-> 0, public_gists |-> 1]

UpstreamRepoStars(login) ==
  CASE login = "alice" -> <<2, 1>>
    [] login = "bob"   -> <<4>>
    [] OTHER           -> <<3, 1, 1>>

UpstreamEvents(login) ==
  CASE login = "alice" -> 3
    [] login = "bob"   -> 0
    [] OTHER           -> 0

\* octokit.repos.get: the repository's metadata.
UpstreamRepo(up) ==
  [name |-> "r", description |-> "d",
   stargazers_count |-> Len(up.stars), forks_count |-> Len(up.forks)]

\* A stargazer is a user object, a fork a repository object with its owner.
StargazerItem(login) == [login |-> login]
ForkItem(login) == [owner |-> [login |-> login]]

UpstreamList(up, c) ==
  IF c = Stargazers THEN [k \in 1..Len(up.stars) |-> StargazerItem(up.stars[k])]
  ELSE IF c = Forks THEN [k \in 1..Len(up.forks) |-> ForkItem(up.forks[k])]
  ELSE <<>>

\* Page k of a listing, and whether the upstream names a next page.
Page(list, k) == SubSeq(list, (k - 1) * PER_PAGE + 1, Min(k * PER_PAGE, Len(list)))
HasNextPage(list, k) == k * PER_PAGE < Len(list)
NumPages(list) == IF Len(list) = 0 THEN 1 ELSE (Len(list) + PER_PAGE - 1) \div PER_PAGE
AllPages(list) == [k \in 1..NumPages(list) |-> Page(list, k)]


(***************************************************************************)
(* Upstream failures.  An error carries a status and a message; the        *)
(* message either contains the words 'rate limit' or does not.             *)
(***************************************************************************)
RateLimitExceeded == [status |-> 403, message |-> "API rate limit exceeded"]
NotFoundError == [status |-> 404, message |-> NotFound]
ForbiddenError == [status |-> 403, message |-> "Forbidden"]
OtherErrors == {NotFoundError, ForbiddenError}

\* error.message.includes('rate limit')
IncludesRateLimit(message) == message \in {RateLimitExceeded.message}

\* A variant that looks at the status alone.
IsRateLimitErrorByStatus(error) == error.status = 403

\* The condition of fetchWithRateLimitHandling's catch.
IsRateLimitError(error) == error.status = 403 /\ IncludesRateLimit(error.message)

\* A variant that backs off: the delay doubles with every retry.
RetryDelayBackoff(i) == RATE_LIMIT_DELAY * (2 ^ i)

\* The argument of the setTimeout that follows the sentinel event.
RetryDelay(i) == RATE_LIMIT_DELAY

\* A variant that is off by one.
LoopContinuesInclusive(i) == i <= maxRetries

\* The loop condition of fetchWithRateLimitHandling.
LoopContinues(i) == i < maxRetries

(***************************************************************************)
(* Request parsing.                                                        *)
(***************************************************************************)
EndsWith(str, ch) == Len(str) > 0 /\ str[Len(str)] = ch

\* str.split(sep): the segments between the separators, empty ones included.
RECURSIVE Split(_, _)
Split(str, sep) ==
  IF \A k \in 1..Len(str) : str[k] # sep THEN <<str>>
  ELSE LET at == CHOOSE k \in 1..Len(str) :
                   str[k] = sep /\ \A j \in 1..(k - 1) : str[j] # sep
       IN <<SubSeq(str, 1, at - 1)>> \o Split(SubSeq(str, at + 1, Len(str)), sep)

\* parts[idx] of a JavaScript array (0-based): undefined outside the array.
At(parts, idx) == IF idx >= 0 /\ idx < Len(parts) THEN parts[idx + 1] ELSE Undefined
Falsy(str) == str = <<>> \/ str = Undefined

UrlOwner(url) == LET parts == Split(url, "/") IN At(parts, Len(parts) - 2)
UrlRepo(url) == LET parts == Split(url, "/") IN At(parts, Len(parts) - 1)
CacheKey(owner, repo) == owner \o <<"/">> \o repo

(***************************************************************************)
(* The cache: two tables of rows (key, data, timestamp), the key primary.  *)
(* data is the JSON text of the payload.  In the text a number is its      *)
(* decimal digits, a string is quoted and null is the word null; the text  *)
(* of an object keeps the keys, the text of an array the order.            *)
(***************************************************************************)
\* An optional value is a sequence of length 0 (null) or 1.
Null == <<>>
Some(value) == <<value>>

DigitChars == <<"0", "1", "2", "3", "4", "5", "6", "7", "8", "9">>

RECURSIVE NumberToText(_)
NumberToText(n) ==
  IF n < 10 THEN <<DigitChars[n + 1]>>
  ELSE Append(NumberToText(n \div 10), DigitChars[(n % 10) + 1])

DigitValue(ch) == (CHOOSE k \in 1..10 : DigitChars[k] = ch) - 1

RECURSIVE TextToNumber(_)
TextToNumber(text) ==
  IF Len(text) = 1 THEN DigitValue(text[1])
  ELSE 10 * TextToNumber(SubSeq(text, 1, Len(text) - 1)) + DigitValue(text[Len(text)])

StringToText(str) == <<"\"", str, "\"">>
TextToString(text) == text[2]

\* A string or null.
NullableToText(v) == IF v = Null THEN <<"null">> ELSE StringToText(v[1])
TextToNullable(text) == IF text = <<"null">> THEN Null ELSE Some(TextToString(text))

ProfileToText(p) ==
  [login |-> StringToText(p.login), name |-> StringToText(p.name),
   bio |-> NullableToText(p.bio),
   stars |-> NumberToText(p.stars), followers |-> NumberToText(p.followers),
   following |-> NumberToText(p.following),
   contributions |-> NumberToText(p.contributions),
   recentActivity |-> NumberToText(p.recentActivity),
   score |-> NumberToText(p.score)]

TextToProfile(text) ==
  [login |-> TextToString(text.login), name |-> TextToString(text.name),
   bio |-> TextToNullable(text.bio),
   stars |-> TextToNumber(text.stars), followers |-> TextToNumber(text.followers),
   following |-> TextToNumber(text.following),
   contributions |-> TextToNumber(text.contributions),
   recentActivity |-> TextToNumber(text.recentActivity),
   score |-> TextToNumber(text.score)]

\* JSON.stringify of the two payloads the code caches: a result object or a
\* profile object.
JsonStringify(value) ==
  IF "influencers" \in DOMAIN value
  THEN [repoInfo |-> [name |-> StringToText(value.repoInfo.name),
                      description |-> StringToText(value.repoInfo.description),
                      stars |-> NumberToText(value.repoInfo.stars),
                      forks |-> NumberToText(value.repoInfo.forks)],
        influencers |-> [k \in 1..Len(value.influencers) |->
                           ProfileToText(value.influencers[k])]]
  ELSE ProfileToText(value)

JsonParse(text) ==
  IF "influencers" \in DOMAIN text
  THEN [repoInfo |-> [name |-> TextToString(text.repoInfo.name),
                      description |-> TextToString(text.repoInfo.description),
                      stars |-> TextToNumber(text.repoInfo.stars),
                      forks |-> TextToNumber(text.repoInfo.forks)],
        influencers |-> [k \in 1..Len(text.influencers) |->
                           TextToProfile(text.influencers[k])]]
  ELSE TextToProfile(text)

\* A variant whose entries live one tick longer.
getCachedRepoInclusive(table, repoId, t) ==
  LET rows == {r \in table : r.repo_id = repoId}
  IN IF rows # {} /\ \E r \in rows : (t - r.timestamp) <= CACHE_TTL
     THEN Some(JsonParse((CHOOSE r \in rows : TRUE).data))
     ELSE Null

getCachedRepo(table, repoId, t) ==
  LET rows == {r \in table : r.repo_id = repoId}
  IN IF rows # {} /\ \E r \in rows : (t - r.timestamp) < CACHE_TTL
     THEN Some(JsonParse((CHOOSE r \in rows : TRUE).data))
     ELSE Null

\* A variant that replaces the table by the row it writes.
cacheRepoClearing(table, repoId, data, t) ==
  {[repo_id |-> repoId, data |-> JsonStringify(data), timestamp |-> t]}

cacheRepo(table, repoId, data, t) ==
  {r \in table : r.repo_id # repoId}
    \cup {[repo_id |-> repoId, data |-> JsonStringify(data), timestamp |-> t]}

\* Variants: one that never finds the row, one that forgets to parse it.
getCachedUserMiss(table, login, t) == Null
getCachedUserRaw(table, login, t) ==
  LET rows == {r \in table : r.login = login}
  IN IF rows # {} /\ \E r \in rows : (t - r.timestamp) < CACHE_TTL
     THEN Some((CHOOSE r \in rows : TRUE).data)
     ELSE Null

getCachedUser(table, login, t) ==
  LET rows == {r \in table : r.login = login}
  IN IF rows # {} /\ \E r \in rows : (t - r.timestamp) < CACHE_TTL
     THEN Some(JsonParse((CHOOSE r \in rows : TRUE).data))
     ELSE Null

\* A variant that keeps the row the login already has (INSERT OR IGNORE).
cacheUserIgnoring(table, login, data, t) ==
  IF \E r \in table : r.login = login THEN table
  ELSE table \cup {[login |-> login, data |-> JsonStringify(data), timestamp |-> t]}

\* A variant that adds the row and leaves an earlier row of the login.
cacheUserKeepingOld(table, login, data, t) ==
  table \cup {[login |-> login, data |-> JsonStringify(data), timestamp |-> t]}

cacheUser(table, login, data, t) ==
  {r \in table : r.login # login}
    \cup {[login |-> login, data |-> JsonStringify(data), timestamp |-> t]}

(***************************************************************************)
(* Scoring and ranking.  The weights 2.5, 2.0, 0.1, 0.1 are kept as tenths *)
(* so that the score is an integer.                                        *)
(***************************************************************************)
\* A variant that counts stars in pairs.
calculateScoreByPairs(stars, followers, contributions, recentActivity) ==
  25 * (stars \div 2) + 20 * followers + contributions + recentActivity

calculateScore(stars, followers, contributions, recentActivity) ==
  25 * stars + 20 * followers + contributions + recentActivity

\* The object processUser builds from the three responses.
\* A variant that takes the number of repositories for the stars.
UserDataCountingRepos(login, user, repos, events) ==
  LET totalStars == Len(repos.data)
      contributions == user.data.public_repos + user.data.public_gists
      recentActivity == Len(events.data)
  IN [login |-> login, name |-> login, bio |-> user.data.bio, stars |-> totalStars,
      followers |-> user.data.followers, following |-> user.data.following,
      contributions |-> contributions, recentActivity |-> recentActivity,
      score |-> calculateScore(totalStars, user.data.followers, contributions,
                               recentActivity)]

UserData(login, user, repos, events) ==
  LET totalStars == SumSeq([k \in 1..Len(repos.data) |-> repos.data[k].stargazers_count])
      contributions == user.data.public_repos + user.data.public_gists
      recentActivity == Len(events.data)
  IN [login |-> login, name |-> login, bio |-> user.data.bio, stars |-> totalStars,
      followers |-> user.data.followers, following |-> user.data.following,
      contributions |-> contributions, recentActivity |-> recentActivity,
      score |-> calculateScore(totalStars, user.data.followers, contributions,
                               recentActivity)]

\* A variant that keeps every occurrence.
UniqueKeepAll(list) == list

\* [...new Set(list)]: the first occurrence of each element, in order.
RECURSIVE Unique(_)
Unique(list) ==
  IF list = <<>> THEN <<>>
  ELSE LET front == Unique(SubSeq(list, 1, Len(list) - 1))
           last == list[Len(list)]
       IN IF \E k \in 1..Len(front) : front[k] = last THEN front
          ELSE Append(front, last)

\* list.slice(from, to) of a JavaScript array (0-based, to excluded).
Slice(list, from, to) == SubSeq(list, from + 1, Min(to, Len(list)))

\* A variant that puts the fork owners before the stargazers.
UniqueUsersForksFirst(stargazers, forks) ==
  Unique([k \in 1..Len(forks) |-> forks[k].owner.login]
           \o [k \in 1..Len(stargazers) |-> stargazers[k].login])

\* The logins of the stargazers followed by those of the fork owners.
UniqueUsers(stargazers, forks) ==
  Unique([k \in 1..Len(stargazers) |-> stargazers[k].login]
           \o [k \in 1..Len(forks) |-> forks[k].owner.login])
UsersToProcess(stargazers, forks) ==
  Slice(UniqueUsers(stargazers, forks), 0, MAX_USERS_TO_PROCESS)

\* A variant that takes one login too many.
BatchOfOverlong(users, i) == Slice(users, i, i + CONCURRENCY_LIMIT + 1)

\* usersToProcess.slice(i, i + CONCURRENCY_LIMIT)
BatchOf(users, i) == Slice(users, i, i + CONCURRENCY_LIMIT)

\* A variant that counts down from 90.
BatchProgressDown(i, n) == 90 - (60 * i) \div n

\* 30 + (i / usersToProcess.length) * 60; the division is exact for the
\* list lengths of the model (they divide 60 * i).
BatchProgress(i, n) == 30 + (60 * i) \div n

\* A variant that is not stable: of two equal scores the later comes first.
RECURSIVE SortByScoreUnstable(_)
SortByScoreUnstable(list) ==
  IF list = <<>> THEN <<>>
  ELSE LET sorted == SortByScoreUnstable(SubSeq(list, 1, Len(list) - 1))
           last == list[Len(list)]
           before == Cardinality({k \in 1..Len(sorted) : sorted[k].score > last.score})
       IN SubSeq(sorted, 1, before) \o <<last>> \o SubSeq(sorted, before + 1, Len(sorted))

\* Array.prototype.sort((a, b) => b.score - a.score): stable, descending.
RECURSIVE SortByScore(_)
SortByScore(list) ==
  IF list = <<>> THEN <<>>
  ELSE LET sorted == SortByScore(SubSeq(list, 1, Len(list) - 1))
           last == list[Len(list)]
           before == Cardinality({k \in 1..Len(sorted) : sorted[k].score >= last.score})
       IN SubSeq(sorted, 1, before) \o <<last>> \o SubSeq(sorted, before + 1, Len(sorted))

\* The result object of a fresh run.
Result(repoInfo, userDetails) ==
  [repoInfo |-> [name |-> repoInfo.data.name,
                 description |-> repoInfo.data.description,
                 stars |-> repoInfo.data.stargazers_count,
                 forks |-> repoInfo.data.forks_count],
   influencers |-> userDetails]


(***************************************************************************)
(* State.                                                                  *)
(***************************************************************************)
VARIABLES
  req,            \* the request and the environment it meets:
                  \* [userApiKey, envApiKey, repoUrl]
  upstream,       \* what the upstream lists: [stars, forks], sequences of logins
  pc,             \* where the async function of POST stands
  out,            \* the records written to the response stream, in order
  connected,      \* FALSE once a write failed because the consumer went away
  now,            \* the last reading of Date.now()
  rlBudget,       \* rate-limit failures the upstream may still raise
  failBudget,     \* other failures the upstream may still raise
  repo_cache,     \* table repo_cache
  user_cache,     \* table user_cache
  calls,          \* one record per call of fetchWithRateLimitHandling
  workers,        \* one record per call of processUser
  cachedResult,   \* the local cachedResult of POST (Null: a miss)
  repoInfo,       \* the response of octokit.repos.get, once fetched
  usersToProcess, \* the candidate logins
  batchStart,     \* the loop variable i of the batch loop
  userDetails,    \* the profiles collected so far
  rejected,       \* the records whose write was rejected
  client,         \* the page in the browser: [mounted, apiKey, githubApiKey, repoUrl]
  sent,           \* the requests the page has sent: [headers, body]
  pacing,         \* the setTimeout between two batches: [timer, slept]
  peer            \* a call of processUser by another request: [st, login, result, calls, last]

vars == <<req, upstream, pc, out, connected, now, rlBudget, failBudget, repo_cache,
          user_cache, calls, workers, cachedResult, repoInfo, usersToProcess,
          batchStart, userDetails, rejected, client, sent, pacing, peer>>

\* The state as one record, for the functions below; exc is the exception
\* in flight in the async function of POST (NoError: none).
State ==
  [req |-> req, upstream |-> upstream, pc |-> pc, out |-> out,
   connected |-> connected, now |-> now,
   rlBudget |-> rlBudget, failBudget |-> failBudget,
   repo_cache |-> repo_cache, user_cache |-> user_cache,
   calls |-> calls, workers |-> workers, cachedResult |-> cachedResult,
   repoInfo |-> repoInfo,
   usersToProcess |-> usersToProcess, batchStart |-> batchStart,
   userDetails |-> userDetails, rejected |-> rejected,
   client |-> client, sent |-> sent, pacing |-> pacing, peer |-> peer,
   exc |-> NoError]

Becomes(state) ==
  \E s \in {state} :
    /\ req' = s.req /\ upstream' = s.upstream /\ pc' = s.pc /\ out' = s.out
    /\ connected' = s.connected /\ now' = s.now
    /\ rlBudget' = s.rlBudget /\ failBudget' = s.failBudget
    /\ repo_cache' = s.repo_cache /\ user_cache' = s.user_cache
    /\ calls' = s.calls /\ workers' = s.workers /\ cachedResult' = s.cachedResult
    /\ repoInfo' = s.repoInfo
    /\ usersToProcess' = s.usersToProcess /\ batchStart' = s.batchStart
    /\ userDetails' = s.userDetails /\ rejected' = s.rejected
    /\ client' = s.client /\ sent' = s.sent /\ pacing' = s.pacing /\ peer' = s.peer

IdleCall ==
  [st |-> "idle", i |-> 0, page |-> 0, acc |-> <<>>, invoked |-> 0,
   timer |-> 0, slept |-> 0, err |-> NoError]
IdleWorker == [st |-> "idle", result |-> Null]
NoRepoInfo == [data |-> [name |-> "", description |-> "",
                         stargazers_count |-> 0, forks_count |-> 0]]

(***************************************************************************)
(* The response stream.                                                    *)
(***************************************************************************)
StatusRecord(message, progress) == [status |-> message, progress |-> progress]

\* writer.write(chunk): the chunk joins the stream unless the consumer has
\* gone (ok = FALSE) or the writer is closed; then the write rejects.
WriterWrite(state, record, ok) ==
  Let(state, LAMBDA s :
    IF ok /\ s.connected /\ s.pc # "closed"
    THEN [s EXCEPT !.out = Append(@, record)]
    ELSE [s EXCEPT !.connected = (@ /\ ok), !.exc = WriteFailed,
                   !.rejected = @ \cup {record}])

\* sendUpdate: a failed write is rethrown as 'Stream closed'.
sendUpdate(state, message, progress, ok) ==
  Let(WriterWrite(state, StatusRecord(message, progress), ok), LAMBDA s1 :
    IF s1.exc = NoError THEN s1 ELSE [s1 EXCEPT !.exc = StreamClosed])

\* A variant that caches what the run has when it fails.
MainCatchCaching(state, ok) ==
  Let(state, LAMBDA s :
    [(IF s.exc = StreamClosed
      THEN [s EXCEPT !.exc = NoError, !.pc = "finally"]
      ELSE [sendUpdate([s EXCEPT !.exc = NoError], "Error: " \o s.exc, 100, ok)
              EXCEPT !.exc = NoError, !.pc = "finally"])
       EXCEPT !.repo_cache =
                 cacheRepo(@, CacheKey(UrlOwner(s.req.repoUrl), UrlRepo(s.req.repoUrl)),
                           Result(s.repoInfo, s.userDetails), s.now)])

\* A variant whose silent branch never reaches finally.
MainCatchNoFinally(state, ok) ==
  Let(state, LAMBDA s :
    IF s.exc = StreamClosed
    THEN [s EXCEPT !.exc = NoError, !.pc = "aborted"]
    ELSE [sendUpdate([s EXCEPT !.exc = NoError], "Error: " \o s.exc, 100, ok)
            EXCEPT !.exc = NoError, !.pc = "finally"])

\* The catch of POST's async function, then its return to finally.
MainCatch(state, ok) ==
  Let(state, LAMBDA s :
    IF s.exc = StreamClosed
    THEN [s EXCEPT !.exc = NoError, !.pc = "finally"]
    ELSE [sendUpdate([s EXCEPT !.exc = NoError], "Error: " \o s.exc, 100, ok)
            EXCEPT !.exc = NoError, !.pc = "finally"])

\* A return out of the try block.
MainReturn(s) == [s EXCEPT !.pc = "finally"]

\* The end of a step of the async function: an exception goes to the catch.
MainSettle(state, ok) ==
  Let(state, LAMBDA s : IF s.exc # NoError THEN MainCatch(s, ok) ELSE s)

(***************************************************************************)
(* fetchWithRateLimitHandling, one record per call.                        *)
(***************************************************************************)
IsPaginated(c) == c \in {Stargazers, Forks}

\* A variant that goes on with the items of the attempt that failed.
InvokeOperationKeepingItems(call) ==
  [call EXCEPT !.st = "inflight", !.invoked = @ + 1, !.page = 1, !.timer = 0]

\* fetchFunction(): the request (of the first page) goes out; a paginated
\* operation starts a new accumulation.
InvokeOperation(call) ==
  [call EXCEPT !.st = "inflight", !.invoked = @ + 1, !.page = 1, !.acc = <<>>,
               !.timer = 0]

\* The call itself: the loop starts with i = 0.
StartCall(call) == InvokeOperation([call EXCEPT !.i = 0])

\* The value of a single request.
Response(up, c) ==
  IF c = RepoGet THEN [data |-> UpstreamRepo(up)]
  ELSE IF c[2] = "user" THEN [data |-> UpstreamUser(c[1])]
  ELSE IF c[2] = "repos"
    THEN [data |-> [k \in 1..Min(Len(UpstreamRepoStars(c[1])), PER_PAGE) |->
                      [stargazers_count |-> UpstreamRepoStars(c[1])[k]]]]
  ELSE [data |-> [k \in 1..Min(UpstreamEvents(c[1]), PER_PAGE) |->
                    [type |-> "PushEvent"]]]

\* A successful response: the value of a single request, or one more page of
\* a paginated operation, which goes on to the next page if there is one.
OnResponse(up, c, call) ==
  IF IsPaginated(c)
  THEN LET list == UpstreamList(up, c)
           acc == call.acc \o Page(list, call.page)
       IN IF HasNextPage(list, call.page)
          THEN [call EXCEPT !.acc = acc, !.page = @ + 1]
          ELSE [call EXCEPT !.acc = acc, !.st = "returned"]
  ELSE [call EXCEPT !.acc = <<Response(up, c)>>, !.st = "returned"]

\* The operation rejects with an error that is rethrown.
OnThrow(call, message) == [call EXCEPT !.st = "thrown", !.err = message]

\* The operation rejects with the rate-limit error and the sentinel event is
\* written: the call sleeps.
OnRateLimit(call) == [call EXCEPT !.st = "sleeping", !.timer = RetryDelay(call.i)]

\* The timer fires: i++, and the loop condition decides.
OnWake(call) ==
  LET woken == [call EXCEPT !.i = @ + 1, !.slept = @ + call.timer, !.timer = 0]
  IN IF LoopContinues(woken.i) THEN InvokeOperation(woken)
     ELSE OnThrow(woken, MaxRetriesReached)


(***************************************************************************)
(* processUser, one record per login.                                      *)
(***************************************************************************)
\* The synchronous start of processUser: the cached profile, or the three
\* fetches at once.
StartWorker(state, login, t) ==
  Let(state, LAMBDA s :
    Let(getCachedUser(s.user_cache, login, t), LAMBDA cachedUser :
      IF cachedUser # Null
      THEN [s EXCEPT !.now = t,
                     !.workers[login] = [st |-> "resolved", result |-> cachedUser]]
      ELSE [s EXCEPT !.now = t,
                     !.workers[login] = [st |-> "running", result |-> Null],
                     !.calls = [c \in CallIds |->
                                  IF c \in {login} \X Kinds THEN StartCall(IdleCall)
                                  ELSE @[c]]]))

RECURSIVE StartWorkers(_, _, _)
StartWorkers(s, batch, t) ==
  IF batch = <<>> THEN s
  ELSE StartWorkers(StartWorker(s, Head(batch), t), Tail(batch), t)

\* A variant without the catch: the rejection reaches POST.
SettleWorkerRethrow(state, login, t) ==
  Let(state, LAMBDA s :
    LET mine == {login} \X Kinds
    IN IF s.workers[login].st # "running" THEN s
       ELSE IF \E c \in mine : s.calls[c].st = "thrown"
         THEN MainCatch([s EXCEPT !.workers[login] = [st |-> "resolved", result |-> Null],
                                  !.exc = s.calls[CHOOSE c \in mine :
                                                    s.calls[c].st = "thrown"].err],
                        s.connected)
       ELSE IF \A c \in mine : s.calls[c].st = "returned"
         THEN Let(UserData(login,
                           s.calls[UserCall(login, "user")].acc[1],
                           s.calls[UserCall(login, "repos")].acc[1],
                           s.calls[UserCall(login, "events")].acc[1]),
                  LAMBDA userData :
                    [s EXCEPT !.now = t,
                              !.user_cache = cacheUser(@, login, userData, t),
                              !.workers[login] = [st |-> "resolved",
                                                  result |-> Some(userData)]])
       ELSE s)

\* What a worker does when one of its three fetches settles: the catch
\* returns null on the first rejection; the profile is built, cached and
\* returned when all three have returned.
SettleWorker(state, login, t) ==
  Let(state, LAMBDA s :
    LET mine == {login} \X Kinds
    IN IF s.workers[login].st # "running" THEN s
       ELSE IF \E c \in mine : s.calls[c].st = "thrown"
         THEN [s EXCEPT !.workers[login] = [st |-> "resolved", result |-> Null]]
       ELSE IF \A c \in mine : s.calls[c].st = "returned"
         THEN Let(UserData(login,
                           s.calls[UserCall(login, "user")].acc[1],
                           s.calls[UserCall(login, "repos")].acc[1],
                           s.calls[UserCall(login, "events")].acc[1]),
                  LAMBDA userData :
                    [s EXCEPT !.now = t,
                              !.user_cache = cacheUser(@, login, userData, t),
                              !.workers[login] = [st |-> "resolved",
                                                  result |-> Some(userData)]])
       ELSE s)

(***************************************************************************)
(* The async function of POST, from one suspension point to the next.      *)
(***************************************************************************)
\* A variant that takes every request to carry a credential.
apiKeyPresent(r) == TRUE

\* userApiKey || process.env.GITHUB_API_KEY
apiKey(r) == r.userApiKey \/ r.envApiKey

RequestKey(s) == CacheKey(UrlOwner(s.req.repoUrl), UrlRepo(s.req.repoUrl))

\* A variant of the loop without the await of line 826: the workers of the
\* next batch are started when the last worker of this one resolves.
ResolveBatchNoPacing(state) ==
  Let(state, LAMBDA s :
    LET batch == BatchOf(s.usersToProcess, s.batchStart)
        next  == s.batchStart + CONCURRENCY_LIMIT
    IN IF s.pc = "batch" /\ \A k \in 1..Len(batch) : s.workers[batch[k]].st = "resolved"
       THEN Let([s EXCEPT !.userDetails =
                            @ \o Flatten([k \in 1..Len(batch) |-> s.workers[batch[k]].result])],
                LAMBDA s1 :
                  IF next < Len(s.usersToProcess)
                  THEN StartWorkers([s1 EXCEPT !.batchStart = next],
                                    BatchOf(s.usersToProcess, next), s.now)
                  ELSE [s1 EXCEPT !.pc = "pacing", !.pacing.timer = BATCH_DELAY])
       ELSE s)

\* Promise.all of the batch resolves when its last worker has: the profiles
\* that are not null are collected in batch order, and the pacing timer is
\* set.
ResolveBatch(state) ==
  Let(state, LAMBDA s :
    LET batch == BatchOf(s.usersToProcess, s.batchStart)
    IN IF s.pc = "batch" /\ \A k \in 1..Len(batch) : s.workers[batch[k]].st = "resolved"
       THEN [s EXCEPT !.userDetails =
                         @ \o Flatten([k \in 1..Len(batch) |-> s.workers[batch[k]].result]),
                      !.pc = "pacing",
                      !.pacing.timer = BATCH_DELAY]
       ELSE s)

\* After the loop: sort, build the result, cache it, announce completion.
Finish(state, ok, t) ==
  Let(state, LAMBDA s :
    Let(SortByScore(s.userDetails), LAMBDA sorted :
      Let(sendUpdate([s EXCEPT !.userDetails = sorted, !.now = t,
                               !.repo_cache = cacheRepo(@, RequestKey(s),
                                                        Result(s.repoInfo, sorted), t)],
                     "Analysis complete", 100, ok),
          LAMBDA s2 : IF s2.exc # NoError THEN s2 ELSE [s2 EXCEPT !.pc = "emit"])))

\* The head of the batch loop at i = batchStart.
RunBatch(state, ok, t) ==
  Let(state, LAMBDA s :
    LET n == Len(s.usersToProcess)
        i == s.batchStart
    IN IF i < n
       THEN Let(sendUpdate(s, "Processing users " \o ToString(i + 1) \o " to "
                                \o ToString(Min(i + CONCURRENCY_LIMIT, n)),
                           BatchProgress(i, n), ok),
                LAMBDA s1 :
                  IF s1.exc # NoError THEN s1
                  ELSE ResolveBatch(StartWorkers([s1 EXCEPT !.pc = "batch"],
                                                 BatchOf(s.usersToProcess, i), t)))
       ELSE Finish(s, ok, t))

\* After Promise.all of the two collections.
AfterCollect(state, ok, t) ==
  Let(state, LAMBDA s :
    RunBatch([s EXCEPT !.usersToProcess =
                          UsersToProcess(s.calls[Stargazers].acc, s.calls[Forks].acc),
                       !.batchStart = 0],
             ok, t))

\* After the repository's metadata has arrived.
\* A variant that starts the two collections without announcing them.
AfterRepoGetUnannounced(state, ok) ==
  Let(state, LAMBDA s :
    [s EXCEPT !.repoInfo = s.calls[RepoGet].acc[1],
              !.pc = "collect",
              !.calls[Stargazers] = StartCall(IdleCall),
              !.calls[Forks] = StartCall(IdleCall)])

AfterRepoGet(state, ok) ==
  Let(state, LAMBDA s :
    Let(sendUpdate([s EXCEPT !.repoInfo = s.calls[RepoGet].acc[1]],
                   "Fetching stargazers and forks", 20, ok),
        LAMBDA s1 :
          IF s1.exc # NoError THEN s1
          ELSE [s1 EXCEPT !.pc = "collect",
                          !.calls[Stargazers] = StartCall(IdleCall),
                          !.calls[Forks] = StartCall(IdleCall)]))

\* Call c has settled or moved: whoever awaits it goes on.
Propagate(state, c, ok, t) ==
  Let(state, LAMBDA s :
    IF c = RepoGet /\ s.pc = "meta"
    THEN IF s.calls[c].st = "returned" THEN MainSettle(AfterRepoGet(s, ok), ok)
         ELSE IF s.calls[c].st = "thrown"
           THEN MainCatch([s EXCEPT !.exc = s.calls[c].err], ok)
         ELSE s
    ELSE IF IsPaginated(c) /\ s.pc = "collect"
    THEN IF s.calls[c].st = "thrown"
           THEN MainCatch([s EXCEPT !.exc = s.calls[c].err], ok)
         ELSE IF s.calls[Stargazers].st = "returned" /\ s.calls[Forks].st = "returned"
           THEN MainSettle(AfterCollect(s, ok, t), ok)
         ELSE s
    ELSE IF IsUserCall(c)
    THEN ResolveBatch(SettleWorker(s, c[1], t))
    ELSE s)

\* `Rate limit reached. Waiting for ${waitTime} seconds...`
RateLimitMessage ==
  "Rate limit reached. Waiting for " \o ToString(RATE_LIMIT_DELAY \div 1000)
    \o " seconds..."

\* The operation of call c rejects with error: the catch of
\* fetchWithRateLimitHandling.
OnError(state, c, error, ok, t) ==
  Let(state, LAMBDA s :
    IF IsRateLimitError(error)
    THEN Let(sendUpdate(s, RateLimitMessage, -1, ok), LAMBDA s1 :
           IF s1.exc # NoError
           THEN Propagate([s1 EXCEPT !.exc = NoError,
                                     !.calls[c] = OnThrow(@, StreamClosed)], c, ok, t)
           ELSE [s1 EXCEPT !.calls[c] = OnRateLimit(@)])
    ELSE Propagate([s EXCEPT !.calls[c] = OnThrow(@, error.message)], c, ok, t))

\* POST up to its first suspension on a write or on the metadata request.
StartRequest(s, ok, t) ==
  LET url == s.req.repoUrl
      hit == getCachedRepo(s.repo_cache, RequestKey(s), t)
      return(message) == LET s1 == sendUpdate(s, message, 100, ok)
                         IN MainReturn(MainSettle(s1, ok))
  IN IF ~apiKey(s.req) THEN return("GitHub API key is required")
     ELSE IF url = Undefined THEN MainCatch([s EXCEPT !.exc = UndefinedRead], ok)
     ELSE IF EndsWith(url, "/") THEN MainCatch([s EXCEPT !.exc = ConstAssignment], ok)
     ELSE IF Falsy(url) THEN return("Repository URL is required")
     ELSE IF Falsy(UrlOwner(url)) \/ Falsy(UrlRepo(url))
       THEN return("Invalid repository URL")
     ELSE IF hit # Null
       THEN LET s1 == sendUpdate([s EXCEPT !.now = t, !.cachedResult = hit],
                                 "Retrieving cached result", 50, ok)
            IN IF s1.exc # NoError THEN MainCatch(s1, ok)
               ELSE [s1 EXCEPT !.pc = "cached"]
     ELSE LET s1 == sendUpdate([s EXCEPT !.now = t],
                               "Fetching repository information", 10, ok)
          IN IF s1.exc # NoError THEN MainCatch(s1, ok)
             ELSE [s1 EXCEPT !.pc = "meta", !.calls[RepoGet] = StartCall(IdleCall)]


(***************************************************************************)
(* Initial states.                                                         *)
(***************************************************************************)
MaxNow == CACHE_TTL + MaxElapsed

\* What an earlier run left in the caches: a result for o/r and a profile
\* of alice, written when she had fewer followers.
OldResult ==
  [repoInfo |-> [name |-> "r", description |-> "d", stars |-> 1, forks |-> 0],
   influencers |-> <<>>]
OldProfile(login) ==
  UserData(login, [data |-> [UpstreamUser(login) EXCEPT !.followers = @ - 1]],
           Response(<<>>, UserCall(login, "repos")),
           Response(<<>>, UserCall(login, "events")))

\* A row written CACHE_TTL ticks ago is stale, a later one is fresh.
InitialTimestamps == {0, 1}
InitialRepoCaches ==
  {{}} \cup {{[repo_id |-> UrlOwnerRepo, data |-> JsonStringify(OldResult),
               timestamp |-> ts]} : ts \in InitialTimestamps}
InitialUserCaches ==
  {{}} \cup {{[login |-> "alice", data |-> JsonStringify(OldProfile("alice")),
               timestamp |-> ts]} : ts \in InitialTimestamps}

Upstreams == {[stars |-> <<"alice", "bob", "carol">>, forks |-> <<"alice">>]}

InitCommon ==
  /\ connected = TRUE
  /\ now = CACHE_TTL
  /\ workers = [l \in Logins |-> IdleWorker]
  /\ cachedResult = Null
  /\ usersToProcess = <<>>
  /\ batchStart = 0
  /\ userDetails = <<>>
  /\ rejected = {}
  /\ client = NoPage
  /\ sent = {}
  /\ pacing = NoPacing
  /\ peer = NoPeer

\* A request arrives.
Init ==
  /\ InitCommon
  /\ req \in [userApiKey : BOOLEAN, envApiKey : BOOLEAN, repoUrl : Urls]
  /\ upstream \in Upstreams
  /\ pc = "start"
  /\ out = <<>>
  /\ rlBudget = MaxRateLimited
  /\ failBudget = MaxFailures
  /\ repo_cache \in InitialRepoCaches
  /\ user_cache \in InitialUserCaches
  /\ calls = [c \in CallIds |-> IdleCall]
  /\ repoInfo = NoRepoInfo

(***************************************************************************)
(* Actions.  ok: the consumer is still reading at this step's write.       *)
(* t: the clock at this step.                                              *)
(***************************************************************************)
Oks == IF connected THEN BOOLEAN ELSE {FALSE}
Times == now..MaxNow

\* POST is called.
Start ==
  /\ pc = "start"
  /\ \E ok \in Oks, t \in Times : Becomes(StartRequest(State, ok, t))

\* The cached result is written after its progress event.
CachedWrite ==
  /\ pc = "cached"
  /\ \E ok \in Oks :
       LET s1 == WriterWrite(State, cachedResult[1], ok)
       IN Becomes(IF s1.exc # NoError THEN MainCatch(s1, ok)
                  ELSE [s1 EXCEPT !.pc = "cachedDone"])

\* ... and the completion event after it.
CachedComplete ==
  /\ pc = "cachedDone"
  /\ \E ok \in Oks :
       Becomes(MainReturn(MainSettle(
         sendUpdate(State, "Analysis complete (cached)", 100, ok), ok)))

\* The upstream answers the request of call c.
FetchReturn(c) ==
  /\ calls[c].st = "inflight"
  /\ \E ok \in Oks, t \in Times :
       Becomes(Propagate([State EXCEPT !.calls[c] = OnResponse(upstream, c, @)],
                         c, ok, t))

\* The upstream rejects the request of call c with the rate-limit error.
FetchRateLimited(c) ==
  /\ calls[c].st = "inflight"
  /\ rlBudget > 0
  /\ \E ok \in Oks, t \in Times :
       Becomes(OnError([State EXCEPT !.rlBudget = @ - 1], c, RateLimitExceeded, ok, t))

\* The upstream rejects the request of call c with another error.
FetchFail(c, errors) ==
  /\ calls[c].st = "inflight"
  /\ failBudget > 0
  /\ \E error \in errors, ok \in Oks, t \in Times :
       Becomes(OnError([State EXCEPT !.failBudget = @ - 1], c, error, ok, t))

\* The retry timer of call c fires.
FetchWake(c) ==
  /\ calls[c].st = "sleeping"
  /\ \E ok \in Oks, t \in Times :
       Becomes(Propagate([State EXCEPT !.calls[c] = OnWake(@)], c, ok, t))

\* The pacing timer fires: i += CONCURRENCY_LIMIT and the loop goes on.
PacingDone ==
  /\ pc = "pacing"
  /\ \E ok \in Oks, t \in Times :
       Becomes(MainSettle(
         RunBatch([State EXCEPT !.pacing = [timer |-> 0, slept |-> @.slept + @.timer],
                                !.batchStart = @ + CONCURRENCY_LIMIT], ok, t), ok))

\* The result record is written after the completion event.
EmitResult ==
  /\ pc = "emit"
  /\ \E ok \in Oks :
       LET s1 == WriterWrite(State, Result(repoInfo, userDetails), ok)
       IN Becomes(IF s1.exc # NoError THEN MainCatch(s1, ok) ELSE MainReturn(s1))

\* finally: writer.close().
Close ==
  /\ pc = "finally"
  /\ pc' = "closed"
  /\ UNCHANGED <<req, upstream, out, connected, now, rlBudget, failBudget, repo_cache,
                 user_cache, calls, workers, cachedResult, repoInfo,
                 usersToProcess, batchStart, userDetails, rejected, client, sent,
                 pacing, peer>>

Next ==
  \/ Start
  \/ CachedWrite
  \/ CachedComplete
  \/ \E c \in CallIds : FetchReturn(c)
  \/ \E c \in CallIds : FetchRateLimited(c)
  \/ \E c \in CallIds : FetchFail(c, {NotFoundError})
  \/ \E c \in CallIds : FetchWake(c)
  \/ PacingDone
  \/ EmitResult
  \/ Close

Spec == Init /\ [][Next]_vars


(***************************************************************************)
(* Two specifications of parts of a run.  SpecFetch is the call of         *)
(* fetchWithRateLimitHandling for the repository's metadata, from the      *)
(* state in which POST makes it, with an upstream that may raise the       *)
(* rate-limit error on every invocation.  SpecPaginate is the call for the *)
(* stargazers, from the state in which POST makes it, for every stargazer  *)
(* list up to MaxStargazers.                                               *)
(***************************************************************************)
Is(s) ==
  /\ req = s.req /\ upstream = s.upstream /\ pc = s.pc /\ out = s.out
  /\ connected = s.connected /\ now = s.now
  /\ rlBudget = s.rlBudget /\ failBudget = s.failBudget
  /\ repo_cache = s.repo_cache /\ user_cache = s.user_cache
  /\ calls = s.calls /\ workers = s.workers /\ cachedResult = s.cachedResult
  /\ repoInfo = s.repoInfo
  /\ usersToProcess = s.usersToProcess /\ batchStart = s.batchStart
  /\ userDetails = s.userDetails /\ rejected = s.rejected
  /\ client = s.client /\ sent = s.sent /\ pacing = s.pacing /\ peer = s.peer

\* A well-formed request that finds both caches empty.
FreshRequest(up, rateLimits) ==
  [req |-> [userApiKey |-> TRUE, envApiKey |-> FALSE, repoUrl |-> UrlOwnerRepo], upstream |-> up,
   pc |-> "start", out |-> <<>>, connected |-> TRUE, now |-> CACHE_TTL,
   rlBudget |-> rateLimits, failBudget |-> MaxFailures,
   repo_cache |-> {}, user_cache |-> {},
   calls |-> [c \in CallIds |-> IdleCall], workers |-> [l \in Logins |-> IdleWorker],
   cachedResult |-> Null, repoInfo |-> NoRepoInfo, usersToProcess |-> <<>>,
   batchStart |-> 0, userDetails |-> <<>>, rejected |-> {},
   client |-> NoPage, sent |-> {}, pacing |-> NoPacing, peer |-> NoPeer,
   exc |-> NoError]

InitFetch ==
  \E up \in Upstreams : Is(StartRequest(FreshRequest(up, maxRetries + 1), TRUE, CACHE_TTL))

NextFetch ==
  \/ FetchReturn(RepoGet)
  \/ FetchRateLimited(RepoGet)
  \/ FetchFail(RepoGet, OtherErrors)
  \/ FetchWake(RepoGet)

SpecFetch == InitFetch /\ [][NextFetch]_vars

InitPaginate ==
  \E stars \in SeqsUpTo(Logins, MaxStargazers) :
    LET up == [stars |-> stars, forks |-> <<>>]
        s1 == StartRequest(FreshRequest(up, MaxPaginateRateLimited), TRUE, CACHE_TTL)
    IN Is(Propagate([s1 EXCEPT !.calls[RepoGet] = OnResponse(up, RepoGet, @)],
                    RepoGet, TRUE, CACHE_TTL))

NextPaginate ==
  \/ FetchReturn(Stargazers)
  \/ FetchRateLimited(Stargazers)
  \/ FetchFail(Stargazers, OtherErrors)
  \/ FetchWake(Stargazers)

SpecPaginate == InitPaginate /\ [][NextPaginate]_vars

(***************************************************************************)
(* SpecEnrich is the enrichment phase: a run whose metadata and            *)
(* collection have succeeded, from the state in which the first batch has  *)
(* started, for every list of one or two stargazers and every user cache.  *)
(* The rate limit strikes the profile endpoint only.  The profile fetch of  *)
(* the first login may already have met it maxRetries - 1 times, so that   *)
(* one more exhausts the retry cap.                                        *)
(***************************************************************************)
\* The upstream answers call c until the call returns.
RECURSIVE Returned(_, _)
Returned(s, c) ==
  IF s.calls[c].st # "inflight" THEN s
  ELSE Returned(Propagate([s EXCEPT !.calls[c] = OnResponse(s.upstream, c, @)],
                          c, TRUE, s.now), c)

\* The upstream has rejected the single request of call c with the
\* rate-limit error n times (n < maxRetries) while the consumer was reading:
\* n sentinel events, n delays, and invocation n + 1 in flight.
RateLimitedTimes(s, c, n) ==
  IF n = 0 THEN s
  ELSE [s EXCEPT !.out = @ \o [k \in 1..n |-> StatusRecord(RateLimitMessage, -1)],
                 !.calls[c] = [@ EXCEPT !.i = n, !.invoked = n + 1,
                                        !.slept = n * RetryDelay(0)]]

EnrichStargazers == SeqsUpTo(Logins, MAX_USERS_TO_PROCESS) \ {<<>>}

InitEnrich ==
  \E stars \in EnrichStargazers, cache \in InitialUserCaches,
     n \in {0, maxRetries - 1} :
    LET up == [stars |-> stars, forks |-> <<>>]
        s0 == [FreshRequest(up, MaxRateLimited) EXCEPT !.user_cache = cache]
        s1 == StartRequest(s0, TRUE, CACHE_TTL)
        s2 == Returned(s1, RepoGet)
        s3 == Returned(Returned(s2, Stargazers), Forks)
        c == UserCall(stars[1], "user")
    IN /\ n > 0 => s3.calls[c].st = "inflight"
       /\ Is(RateLimitedTimes(s3, c, n))

NextEnrich ==
  \/ \E c \in Logins \X Kinds : FetchReturn(c)
  \/ \E c \in Logins \X {"user"} : FetchRateLimited(c)
  \/ \E c \in Logins \X Kinds : FetchFail(c, {NotFoundError})
  \/ \E c \in Logins \X {"user"} : FetchWake(c)
  \/ PacingDone
  \/ EmitResult
  \/ Close

SpecEnrich == InitEnrich /\ [][NextEnrich]_vars

(***************************************************************************)
(* SpecLive is Spec under the assumption that whatever is pending (an      *)
(* upstream answer, a timer, a write, the close) eventually happens.  A    *)
(* request may also start with its repository fetch already rate limited   *)
(* maxRetries - 1 times, so that one more exhausts the retry cap.  The     *)
(* user cache of a plain request holds a fresh profile, so that enrichment *)
(* takes both the cached and the fetching path.                            *)
(***************************************************************************)
InitLive ==
  \/ Init /\ \E row \in user_cache : now - row.timestamp < CACHE_TTL
  \/ \E up \in Upstreams :
       Is(RateLimitedTimes(StartRequest(FreshRequest(up, MaxRateLimited), TRUE, CACHE_TTL),
                           RepoGet, maxRetries - 1))

SpecLive == InitLive /\ [][Next]_vars /\ WF_vars(Next)

(***************************************************************************)
(* SpecClient is the page Home in the browser: it mounts, the user types   *)
(* a key and a URL, saves the key, and submits the form any number of      *)
(* times.  A submitted request reaches POST, whose request is req.  The    *)
(* browser may hold a key saved by an earlier visit.                       *)
(***************************************************************************)
Keys == {NoKey, UserKey}
ClientUrls == {UrlEmpty, UrlOwnerRepo, UrlTrailingSlash}

InitClient ==
  \E stored \in Keys, env \in BOOLEAN :
    LET s == FreshRequest([stars |-> <<>>, forks |-> <<>>], 0)
    IN Is([s EXCEPT !.req = [userApiKey |-> FALSE, envApiKey |-> env, repoUrl |-> Undefined],
                    !.client.githubApiKey = stored])

\* useEffect: the stored key, if any, becomes the state apiKey.
Mount ==
  /\ ~client.mounted
  /\ Becomes([State EXCEPT !.client.mounted = TRUE,
                           !.client.apiKey = IF client.githubApiKey # NoKey
                                             THEN client.githubApiKey ELSE @])

\* onChange of the key input: setApiKey(e.target.value).
SetApiKey ==
  /\ client.mounted
  /\ \E key \in Keys : Becomes([State EXCEPT !.client.apiKey = key])

\* handleApiKeySubmit: localStorage.setItem('githubApiKey', apiKey).
HandleApiKeySubmit ==
  /\ client.mounted
  /\ Becomes([State EXCEPT !.client.githubApiKey = client.apiKey])

\* setRepoUrl.
SetRepoUrl ==
  /\ client.mounted
  /\ \E url \in ClientUrls : Becomes([State EXCEPT !.client.repoUrl = url])

\* The request analyzeRepository sends with fetch.
ClientRequest(page) ==
  [headers |-> {<<"Content-Type", "application/json">>}
                 \cup (IF page.apiKey # NoKey THEN {<<"X-GitHub-Api-Key", page.apiKey>>}
                       ELSE {}),
   body |-> [repoUrl |-> page.repoUrl]]

\* request.headers.get(name): the value, or null (NoKey here).
HeadersGet(headers, name) ==
  IF \E h \in headers : h[1] = name
  THEN (CHOOSE h \in headers : h[1] = name)[2] ELSE NoKey

\* analyzeRepository: the request is sent, and POST reads it.
AnalyzeRepository ==
  /\ client.mounted
  /\ LET request == ClientRequest(client)
     IN Becomes([State EXCEPT
                   !.sent = @ \cup {request},
                   !.req = [@ EXCEPT
                              !.userApiKey =
                                 HeadersGet(request.headers, "X-GitHub-Api-Key") # NoKey,
                              !.repoUrl = request.body.repoUrl]])

NextClient ==
  \/ Mount
  \/ SetApiKey
  \/ HandleApiKeySubmit
  \/ SetRepoUrl
  \/ AnalyzeRepository

SpecClient == InitClient /\ [][NextClient]_vars

(***************************************************************************)
(* SpecScore is calculateScore on its own: two profiles are scored, each   *)
(* from any four counts up to MaxCount, and kept in userDetails.           *)
(***************************************************************************)
InitScore == Is(FreshRequest([stars |-> <<>>, forks |-> <<>>], 0))

ScoreProfile ==
  /\ Len(userDetails) < 2
  /\ \E stars \in 0..MaxCount, followers \in 0..MaxCount,
        contributions \in 0..MaxCount, recentActivity \in 0..MaxCount :
       Becomes([State EXCEPT !.userDetails =
                  Append(@, [stars |-> stars, followers |-> followers,
                             contributions |-> contributions,
                             recentActivity |-> recentActivity,
                             score |-> calculateScore(stars, followers, contributions,
                                                      recentActivity)])])

NextScore == ScoreProfile

SpecScore == InitScore /\ [][NextScore]_vars

(***************************************************************************)
(* SpecCache is the cache on its own: the four cache functions called in   *)
(* any order while the clock advances, on tables that start empty or with  *)
(* a row of either payload for the key that is read and for another key.   *)
(* pc names the last function called; a read leaves its result in          *)
(* cachedResult (repository) or in the worker of the login read (user),    *)
(* which usersToProcess names.                                             *)
(***************************************************************************)
OtherRepoKey == CacheKey(<<"o">>, <<"q">>)
RepoPayloads == {OldResult, [OldResult EXCEPT !.repoInfo.stars = @ + 1]}
UserPayloads(login) == {OldProfile(login), [OldProfile(login) EXCEPT !.followers = @ + 1]}
RepoRow(key, data, t) == [repo_id |-> key, data |-> JsonStringify(data), timestamp |-> t]
UserRow(login, data, t) == [login |-> login, data |-> JsonStringify(data), timestamp |-> t]

InitCache ==
  \E main \in {{}} \cup {{RepoRow(UrlOwnerRepo, d, 0)} : d \in RepoPayloads},
     other \in {{}, {RepoRow(OtherRepoKey, OldResult, 0)}},
     mine \in {{}} \cup {{UserRow("alice", d, 0)} : d \in UserPayloads("alice")},
     others \in {{}, {UserRow("bob", OldProfile("bob"), 0)}} :
    Is([FreshRequest([stars |-> <<>>, forks |-> <<>>], 0)
          EXCEPT !.now = 0, !.repo_cache = main \cup other, !.user_cache = mine \cup others])

NoRead(s) ==
  [s EXCEPT !.cachedResult = Null, !.workers = [l \in Logins |-> IdleWorker],
            !.usersToProcess = <<>>]

ReadRepo ==
  \E t \in Times :
    Becomes([NoRead(State) EXCEPT
               !.now = t, !.pc = "getCachedRepo",
               !.cachedResult = getCachedRepo(repo_cache, RequestKey(State), t)])

ReadUser ==
  \E t \in Times, login \in Logins :
    Becomes([NoRead(State) EXCEPT
               !.now = t, !.pc = "getCachedUser", !.usersToProcess = <<login>>,
               !.workers[login] = [st |-> "resolved",
                                   result |-> getCachedUser(user_cache, login, t)]])

WriteRepo ==
  \E t \in Times, data \in RepoPayloads :
    Becomes([NoRead(State) EXCEPT
               !.now = t, !.pc = "cacheRepo",
               !.repo_cache = cacheRepo(@, RequestKey(State), data, t)])

WriteUser ==
  \E t \in Times, data \in UserPayloads("alice") :
    Becomes([NoRead(State) EXCEPT
               !.now = t, !.pc = "cacheUser",
               !.user_cache = cacheUser(@, "alice", data, t)])

NextCache ==
  \/ ReadRepo
  \/ ReadUser
  \/ WriteRepo
  \/ WriteUser

SpecCache == InitCache /\ [][NextCache]_vars

(***************************************************************************)
(* SpecConcurrent is the enrichment of one candidate by the request (as in *)
(* SpecEnrich) while another request of the same process calls processUser *)
(* for a login of its own choice: peer is that call.  The two calls share  *)
(* the database and nothing else; the peer's stream is left out, and so    *)
(* are the retries of its fetches, which touch nothing shared.  Between    *)
(* the two calls the upstream may have counted one more follower.  last    *)
(* tells whether the peer wrote its profile after the request's worker for *)
(* that login had resolved.                                                *)
(***************************************************************************)
PeerResponses(up, login, kind) ==
  IF kind = "user"
  THEN {[data |-> UpstreamUser(login)],
        [data |-> [UpstreamUser(login) EXCEPT !.followers = @ + 1]]}
  ELSE {Response(up, UserCall(login, kind))}

\* processUser, 945-950: the read of the cache, and on a miss the three
\* fetches of the Promise.all.
PeerStart ==
  /\ peer.st = "idle"
  /\ \E login \in Logins, t \in Times :
       \E cachedUser \in {getCachedUser(user_cache, login, t)} :
         Becomes([State EXCEPT
                    !.now = t,
                    !.peer = IF cachedUser # Null
                             THEN [@ EXCEPT !.st = "resolved", !.login = login,
                                            !.result = cachedUser]
                             ELSE [@ EXCEPT !.st = "running", !.login = login,
                                            !.calls = [kind \in Kinds |->
                                                         [st |-> "inflight",
                                                          acc |-> <<>>]]]])

\* 959-981 for the peer: the profile is built, cached and returned once the
\* three fetches have returned.
PeerSettle(state, t) ==
  Let(state, LAMBDA s :
    IF s.peer.st = "running" /\ \A kind \in Kinds : s.peer.calls[kind].st = "returned"
    THEN Let(UserData(s.peer.login, s.peer.calls["user"].acc[1],
                      s.peer.calls["repos"].acc[1], s.peer.calls["events"].acc[1]),
             LAMBDA userData :
               [s EXCEPT !.now = t,
                         !.user_cache = cacheUser(@, s.peer.login, userData, t),
                         !.peer = [@ EXCEPT !.st = "resolved",
                                            !.result = Some(userData),
                                            !.last = s.workers[s.peer.login].st
                                                       = "resolved"]])
    ELSE s)

\* One of the peer's fetches returns.
PeerReturn(kind) ==
  /\ peer.st = "running"
  /\ peer.calls[kind].st = "inflight"
  /\ \E response \in PeerResponses(upstream, peer.login, kind), t \in Times :
       Becomes(PeerSettle([State EXCEPT !.peer.calls[kind] =
                                          [st |-> "returned", acc |-> <<response>>]],
                          t))

\* One of the peer's fetches rejects: the catch of 982-985 returns null.
PeerFail(kind) ==
  /\ peer.st = "running"
  /\ peer.calls[kind].st = "inflight"
  /\ Becomes([State EXCEPT !.peer = [@ EXCEPT !.calls[kind].st = "thrown",
                                              !.st = "resolved",
                                              !.result = Null]])

InitConcurrent ==
  \E login \in {"alice", "bob"},
     cache \in {c \in InitialUserCaches : \A r \in c : r.timestamp = 0} :
    LET up == [stars |-> <<login>>, forks |-> <<>>]
        s0 == [FreshRequest(up, MaxRateLimited) EXCEPT !.user_cache = cache]
        s1 == StartRequest(s0, TRUE, CACHE_TTL)
        s2 == Returned(s1, RepoGet)
    IN Is(Returned(Returned(s2, Stargazers), Forks))

NextConcurrent ==
  \/ \E c \in Logins \X Kinds : FetchReturn(c)
  \/ \E c \in Logins \X {"user"} : FetchRateLimited(c)
  \/ \E c \in Logins \X Kinds : FetchFail(c, {NotFoundError})
  \/ \E c \in Logins \X {"user"} : FetchWake(c)
  \/ PeerStart
  \/ \E kind \in Kinds : PeerReturn(kind)
  \/ \E kind \in Kinds : PeerFail(kind)
  \/ PacingDone
  \/ EmitResult
  \/ Close

SpecConcurrent == InitConcurrent /\ [][NextConcurrent]_vars

(***************************************************************************)
(* SpecCandidates is the collection phase up to the start of the first     *)
(* batch, for every list of stargazers up to MaxStars and every list of    *)
(* fork owners up to MaxForks, a login any number of times in either.      *)
(***************************************************************************)
InitCandidates ==
  \E stars \in SeqsUpTo(Logins, MaxStars), forks \in SeqsUpTo(Logins, MaxForks) :
    LET up == [stars |-> stars, forks |-> forks]
        s1 == StartRequest(FreshRequest(up, MaxRateLimited), TRUE, CACHE_TTL)
    IN Is(Returned(s1, RepoGet))

NextCandidates ==
  \/ FetchReturn(Stargazers)
  \/ FetchReturn(Forks)

SpecCandidates == InitCandidates /\ [][NextCandidates]_vars

(***************************************************************************)
(* SpecTwice is processUser called twice for one login: the first call,    *)
(* made by a run whose only candidate is that login, misses the cache (no  *)
(* row, or a stale one); the second call is made by a later request        *)
(* before the clock has advanced by CACHE_TTL.  userDetails collects what  *)
(* the two calls return.                                                   *)
(***************************************************************************)
StaleUserCaches(l) ==
  {{}, {[login |-> l, data |-> JsonStringify(OldProfile(l)), timestamp |-> 0]}}

InitTwice ==
  \E l \in Logins :
    \E cache \in StaleUserCaches(l) :
      LET up == [stars |-> <<l>>, forks |-> <<>>]
          s0 == [FreshRequest(up, MaxRateLimited) EXCEPT !.user_cache = cache]
          s1 == StartRequest(s0, TRUE, CACHE_TTL)
          s2 == Returned(s1, RepoGet)
      IN Is(Returned(Returned(s2, Stargazers), Forks))

\* processUser is called again for the login of the first call.
SecondCall ==
  /\ pc = "pacing"
  /\ Len(userDetails) = 1
  /\ \E t \in Times :
       LET l == usersToProcess[1]
           s1 == [State EXCEPT !.pc = "batch",
                               !.workers[l] = IdleWorker,
                               !.calls = [c \in CallIds |->
                                            IF c[1] = l THEN IdleCall ELSE @[c]]]
       IN Becomes(ResolveBatch(StartWorker(s1, l, t)))

NextTwice ==
  \/ \E c \in Logins \X Kinds : FetchReturn(c)
  \/ \E c \in Logins \X Kinds : FetchRateLimited(c)
  \/ \E c \in Logins \X Kinds : FetchWake(c)
  \/ SecondCall

SpecTwice == InitTwice /\ [][NextTwice]_vars


(***************************************************************************)
(* Vocabulary of the properties.                                           *)
(***************************************************************************)
IsStatus(r) == "status" \in DOMAIN r
IsResult(r) == "influencers" \in DOMAIN r
IsSentinel(r) == IsStatus(r) /\ r.progress = -1

ValidationMessages ==
  {"GitHub API key is required", "Repository URL is required", "Invalid repository URL"}
OtherErrorMessages == {error.message : error \in OtherErrors}
ErrorMessages ==
  OtherErrorMessages \cup {MaxRetriesReached, ConstAssignment, UndefinedRead, WriteFailed}
ErrorStatuses == ValidationMessages \cup {"Error: " \o m : m \in ErrorMessages}

\* A status record that carries an error at progress 100.
IsErrorRecord(r) == IsStatus(r) /\ r.progress = 100 /\ r.status \in ErrorStatuses
IsTerminal(r) == IsResult(r) \/ IsErrorRecord(r)

NumSentinels == Cardinality({k \in 1..Len(out) : IsSentinel(out[k])})

\* The repository identifier that a request URL stands for: the URL with or
\* without a trailing slash names the same repository.
RepoIdentifier(url) ==
  LET bare == IF EndsWith(url, "/") THEN SubSeq(url, 1, Len(url) - 1) ELSE url
  IN CacheKey(UrlOwner(bare), UrlRepo(bare))

\* A row of repo_cache that this run has written (the rows an earlier run
\* left hold OldResult).
WrittenByRun(r) == r.data # JsonStringify(OldResult)
CacheWritten == \E r \in repo_cache : WrittenByRun(r)

Running == {l \in Logins : workers[l].st = "running"}
UserCalls == Logins \X Kinds
InFlight(cs) == {c \in cs : calls[c].st = "inflight"}

\* Metadata, both collections and every enrichment worker have completed.
AllPhasesDone ==
  /\ calls[RepoGet].st = "returned"
  /\ calls[Stargazers].st = "returned"
  /\ calls[Forks].st = "returned"
  /\ usersToProcess = UsersToProcess(calls[Stargazers].acc, calls[Forks].acc)
  /\ batchStart >= Len(usersToProcess)
  /\ \A k \in 1..Len(usersToProcess) : workers[usersToProcess[k]].st = "resolved"

(***************************************************************************)
(* C1.  On every path the stream holds progress records followed by        *)
(* exactly one terminal record (the result, or an error status at progress *)
(* 100), and no record follows the terminal record.  The run that serves   *)
(* a cached result writes 'Analysis complete (cached)' after the result.   *)
(***************************************************************************)
C1_OneTerminalRecordLast ==
  /\ \A k \in 1..Len(out) : IsTerminal(out[k]) => k = Len(out)
  /\ (pc = "closed" /\ connected) => (Len(out) > 0 /\ IsTerminal(out[Len(out)]))

(***************************************************************************)
(* C2.  A request whose repository identifier has a fresh entry in         *)
(* repo_cache gets the cached payload and causes no upstream call,         *)
(* whatever its other inputs are: with or without a credential of its own  *)
(* (the server has one configured), with or without a trailing slash.  A   *)
(* URL with a trailing slash never gets to the lookup: the assignment to   *)
(* the const repoUrl throws.                                               *)
(***************************************************************************)
C2_FreshEntryIsServed ==
  (\E r \in repo_cache : /\ req.envApiKey
                         /\ r.repo_id = RepoIdentifier(req.repoUrl)
                         /\ ~WrittenByRun(r)
                         /\ (now - r.timestamp) < CACHE_TTL)
    => /\ \A c \in CallIds : calls[c].st = "idle"
       /\ (pc = "closed" /\ connected) => \E k \in 1..Len(out) : out[k] = OldResult

(***************************************************************************)
(* C3.  repo_cache is written only by a run in which metadata, collection  *)
(* and all batches completed, and a run that ends with an error record or  *)
(* is aborted leaves it unchanged.  The original statement fails for the   *)
(* run whose consumer disconnects at the completion event or the result    *)
(* record: the cache is written before them.  As amended: the cache is     *)
(* written only when all phases have completed, never by a run that wrote  *)
(* an error record, and a run that ends without a result record after      *)
(* writing the cache is one whose consumer disconnected at the end.        *)
(***************************************************************************)
NoResultRecord == \A k \in 1..Len(out) : ~IsResult(out[k])

C4_WorkersWithinLimit == Cardinality(Running) <= CONCURRENCY_LIMIT

C4_Witness ==
  /\ Cardinality(Running) = CONCURRENCY_LIMIT
  /\ Len(usersToProcess) > CONCURRENCY_LIMIT
  /\ batchStart > 0

(***************************************************************************)
(* C5.  The upstream requests in flight during enrichment are at most the  *)
(* batch size.  The original statement fails: every worker issues its      *)
(* three fetches at once.  As amended: the requests in flight for workers  *)
(* that have not resolved are at most three times the batch size, and all  *)
(* requests in flight for logins exceed that by at most two for every      *)
(* worker that has returned null (the retry loops it left behind).         *)
(***************************************************************************)
C5_Original == Cardinality(InFlight(UserCalls)) <= CONCURRENCY_LIMIT

ReturnedNull == {l \in Logins : workers[l].st = "resolved" /\ workers[l].result = Null}

C5_RequestsWithinThreeTimesLimit ==
  /\ Cardinality(InFlight(Running \X Kinds)) <= Cardinality(Kinds) * CONCURRENCY_LIMIT
  /\ Cardinality(InFlight(UserCalls))
       <= Cardinality(Kinds) * CONCURRENCY_LIMIT
            + (Cardinality(Kinds) - 1) * Cardinality(ReturnedNull)

C5_Witness ==
  /\ Cardinality(InFlight(Running \X Kinds)) = Cardinality(Kinds) * CONCURRENCY_LIMIT
  /\ Cardinality(InFlight(UserCalls)) > Cardinality(Kinds) * CONCURRENCY_LIMIT

C7_OtherFailurePropagates ==
  LET call == calls[RepoGet]
      n == NumSentinels
  IN failBudget < MaxFailures =>
       /\ call.st = "thrown" /\ call.err \in OtherErrorMessages
       /\ call.invoked = n + 1
       /\ call.timer = 0 /\ call.slept = n * RATE_LIMIT_DELAY
       /\ pc \in {"finally", "closed"}
       /\ connected => out[Len(out)] = StatusRecord("Error: " \o call.err, 100)

C7_Witness ==
  /\ failBudget < MaxFailures
  /\ calls[RepoGet].st = "thrown"
  /\ calls[RepoGet].err = ForbiddenError.message
  /\ calls[RepoGet].invoked = 2
  /\ NumSentinels = 1

(***************************************************************************)
(* C8.  One call invokes the operation at most maxRetries times, and a     *)
(* call whose invocations all fail with the rate limit fails with 'Max     *)
(* retries reached for rate limit'.  The original statement fails when     *)
(* the sentinel event cannot be written: the call then fails with 'Stream  *)
(* closed'.  As amended: at most maxRetries invocations; a call whose      *)
(* invocations all failed with the rate limit fails with 'Max retries      *)
(* reached for rate limit' after exactly maxRetries invocations, each      *)
(* followed by its sentinel and its delay, unless a sentinel event could   *)
(* not be written, and then it fails with 'Stream closed' at once.         *)
(***************************************************************************)
OnlyRateLimited ==
  calls[RepoGet].st = "thrown" /\ calls[RepoGet].err \notin OtherErrorMessages

C8_Original ==
  /\ calls[RepoGet].invoked <= maxRetries
  /\ OnlyRateLimited => calls[RepoGet].err = MaxRetriesReached

C8_RetryCap ==
  LET call == calls[RepoGet]
  IN /\ call.invoked <= maxRetries
     /\ OnlyRateLimited => call.err \in {MaxRetriesReached, StreamClosed}
     /\ (call.st = "thrown" /\ call.err = MaxRetriesReached) =>
          /\ call.invoked = maxRetries
          /\ NumSentinels = maxRetries
          /\ call.slept = maxRetries * RATE_LIMIT_DELAY
     /\ (call.st = "thrown" /\ call.err = StreamClosed) =>
          ~connected /\ NumSentinels = call.invoked - 1
     /\ (NumSentinels = maxRetries /\ call.st # "sleeping") =>
          call.st = "thrown" /\ call.err = MaxRetriesReached

C8_Witness ==
  /\ calls[RepoGet].st = "thrown"
  /\ calls[RepoGet].err = MaxRetriesReached
  /\ calls[RepoGet].invoked = maxRetries
  /\ rlBudget > 0

(***************************************************************************)
(* C9.  Under SpecPaginate, for every upstream list of stargazers and      *)
(* every pattern of rate-limit failures, the sequence that the collection  *)
(* returns is the concatenation of all upstream pages in page order.       *)
(***************************************************************************)
C9_CollectionIsAllPages ==
  calls[Stargazers].st = "returned" =>
    /\ calls[Stargazers].acc = Flatten(AllPages(UpstreamList(upstream, Stargazers)))
    /\ Len(calls[Stargazers].acc) = Len(upstream.stars)
    /\ \A k \in 1..Len(upstream.stars) :
         calls[Stargazers].acc[k] = StargazerItem(upstream.stars[k])

C9_Witness ==
  /\ calls[Stargazers].st = "returned"
  /\ calls[Stargazers].i >= 2
  /\ Len(calls[Stargazers].acc) > PER_PAGE
  /\ \E j, k \in 1..Len(upstream.stars) : j # k /\ upstream.stars[j] = upstream.stars[k]

(***************************************************************************)
(* C10.  When the rate limit strikes on page k >= 2 of the stargazers,     *)
(* the request that follows the sentinel event and the delay is for page   *)
(* k.  The retried operation is the whole pagination, which starts over    *)
(* at page 1.                                                              *)
(***************************************************************************)
C10_ResumesAtFailedPage ==
  [][(/\ calls[Stargazers].st = "sleeping"
      /\ calls[Stargazers].page >= 2
      /\ calls'[Stargazers].st = "inflight")
       => calls'[Stargazers].page = calls[Stargazers].page]_vars

(***************************************************************************)
(* C11.  Under SpecEnrich: a worker one of whose three fetches has failed  *)
(* (with an error that is not the rate limit, or at the retry cap) has     *)
(* returned null; when the run has ended with the consumer still reading,  *)
(* every candidate's worker has run, the stream holds one result record,   *)
(* whose influencers are the candidates without the failed logins, N minus *)
(* the number of failed logins of them, and there is no error record.      *)
(***************************************************************************)
ResultRecords == {k \in 1..Len(out) : IsResult(out[k])}
TheResult == out[CHOOSE k \in ResultRecords : TRUE]

Candidates == {usersToProcess[k] : k \in 1..Len(usersToProcess)}
EnrichmentErrors == OtherErrorMessages \cup {MaxRetriesReached}
FailedLogins ==
  {l \in Candidates : \E c \in {l} \X Kinds :
                        calls[c].st = "thrown" /\ calls[c].err \in EnrichmentErrors}

C11_FailedLoginIsOmitted ==
  /\ \A l \in Logins :
       (\E c \in {l} \X Kinds : calls[c].st = "thrown")
         => workers[l] = [st |-> "resolved", result |-> Null]
  /\ (pc = "closed" /\ connected) =>
       /\ \A l \in Candidates : workers[l].st = "resolved"
       /\ Cardinality(ResultRecords) = 1
       /\ Len(TheResult.influencers) = Len(usersToProcess) - Cardinality(FailedLogins)
       /\ {TheResult.influencers[k].login : k \in 1..Len(TheResult.influencers)}
            = Candidates \ FailedLogins
       /\ \A k \in 1..Len(out) : ~IsErrorRecord(out[k])

C11_Witness ==
  /\ pc = "closed" /\ connected
  /\ Len(usersToProcess) = 2
  /\ FailedLogins = {usersToProcess[1]}
  /\ calls[UserCall(usersToProcess[1], "user")].err = MaxRetriesReached
  /\ Cardinality(ResultRecords) = 1
  /\ Len(TheResult.influencers) = 1

(***************************************************************************)
(* C12.  Under SpecEnrich: when processUser is called for a login that has *)
(* a fresh row in user_cache, it returns the profile that was cached,      *)
(* starts none of the three fetches and leaves the row as it is; and no    *)
(* fetch for that login is ever started afterwards in the run.             *)
(***************************************************************************)
FreshUserRow(l, t) ==
  \E r \in user_cache : r.login = l /\ (t - r.timestamp) < CACHE_TTL
UserRows(table, l) == {r \in table : r.login = l}

C12_Call ==
  \A l \in Logins :
    (workers[l].st = "idle" /\ workers'[l].st # "idle" /\ FreshUserRow(l, now'))
      => /\ workers'[l] = [st |-> "resolved", result |-> Some(OldProfile(l))]
         /\ \A c \in {l} \X Kinds : calls'[c] = IdleCall
         /\ UserRows(user_cache', l) = UserRows(user_cache, l)

C12_Afterwards ==
  \A l \in Logins :
    (workers[l].st = "resolved" /\ workers[l].result = Some(OldProfile(l)))
      => /\ \A c \in {l} \X Kinds : calls[c] = IdleCall
         /\ \E ts \in InitialTimestamps :
              UserRows(user_cache, l) = {[login |-> l,
                                          data |-> JsonStringify(OldProfile(l)),
                                          timestamp |-> ts]}

C12_CachedProfileShortCircuits == []C12_Afterwards /\ [][C12_Call]_vars

C12_Witness ==
  /\ usersToProcess = <<"bob", "alice">>
  /\ workers["alice"] = [st |-> "resolved", result |-> Some(OldProfile("alice"))]
  /\ workers["bob"].result # Null
  /\ pc = "closed" /\ connected
  /\ Cardinality(ResultRecords) = 1
  /\ \E k \in 1..Len(TheResult.influencers) : TheResult.influencers[k] = OldProfile("alice")

(***************************************************************************)
(* C13.  Under SpecTwice: the profile that the second call returns from    *)
(* the cache equals, field for field, the profile that the first call      *)
(* built from the three responses, and the second call fetches nothing.    *)
(***************************************************************************)
ProfileFields ==
  {"login", "name", "bio", "stars", "followers", "following", "contributions",
   "recentActivity", "score"}

C13_SecondCallReturnsSameProfile ==
  Len(userDetails) = 2 =>
    /\ DOMAIN userDetails[2] = ProfileFields
    /\ \A f \in ProfileFields : userDetails[2][f] = userDetails[1][f]
    /\ \A c \in {usersToProcess[1]} \X Kinds : calls[c] = IdleCall

C13_Witness ==
  /\ Len(userDetails) = 2
  /\ usersToProcess = <<"alice">>
  /\ userDetails[1].score = 140
  /\ userDetails[2].score = 140
  /\ userDetails[2].bio = <<"hi">>
  /\ rlBudget = 0

(***************************************************************************)
(* C14.  Under SpecCandidates: once both collections have returned, the    *)
(* candidates hold no login twice, however often it occurs among the       *)
(* stargazers and the fork owners, they are at most MAX_USERS_TO_PROCESS,  *)
(* every one of them comes from the two lists, and no worker is started    *)
(* for a login that is not a candidate.                                    *)
(***************************************************************************)
SourceLogins ==
  {upstream.stars[k] : k \in 1..Len(upstream.stars)}
    \cup {upstream.forks[k] : k \in 1..Len(upstream.forks)}

CandidateIndex(login) == CHOOSE k \in 1..Len(usersToProcess) : usersToProcess[k] = login

C15_SortedByScoreStable ==
  \A r \in ResultRecords :
    LET influencers == out[r].influencers
    IN \A j, k \in 1..Len(influencers) :
         j < k =>
           /\ influencers[j].score >= influencers[k].score
           /\ influencers[j].score = influencers[k].score
                => CandidateIndex(influencers[j].login) < CandidateIndex(influencers[k].login)

C15_Witness ==
  /\ ResultRecords # {}
  /\ Len(TheResult.influencers) = 2
  /\ TheResult.influencers[1].score = TheResult.influencers[2].score
  /\ usersToProcess = <<TheResult.influencers[1].login, TheResult.influencers[2].login>>

\* A result whose order differs from the order of the candidates.
C15_Reordered ==
  /\ ResultRecords # {}
  /\ Len(TheResult.influencers) = 2
  /\ TheResult.influencers[1].score > TheResult.influencers[2].score
  /\ usersToProcess = <<TheResult.influencers[2].login, TheResult.influencers[1].login>>

(***************************************************************************)
(* C16.  Under Spec: once the repository fetch or a collection has thrown  *)
(* an error that no retry recovers and POST has left its try block, with   *)
(* the consumer still connected, the stream holds exactly one error record *)
(* at progress 100, it is the final record, and there is no result record. *)
(***************************************************************************)
PipelineCalls == {RepoGet, Stargazers, Forks}
ErrorRecords == {k \in 1..Len(out) : IsErrorRecord(out[k])}
PipelineFailed ==
  /\ pc \in {"finally", "closed"}
  /\ \E c \in PipelineCalls : calls[c].st = "thrown" /\ calls[c].err \in EnrichmentErrors

C16_OneFinalErrorRecord ==
  (PipelineFailed /\ connected) =>
    /\ Cardinality(ErrorRecords) = 1
    /\ ResultRecords = {}
    /\ IsErrorRecord(out[Len(out)])

\* What does hold of such a run: one error record, no result record.
C16_OneErrorRecordNoResult ==
  (PipelineFailed /\ connected) =>
    /\ Cardinality(ErrorRecords) = 1
    /\ ResultRecords = {}

(***************************************************************************)
(* C17.  Under Spec: once a write has failed because the consumer is gone, *)
(* no worker is started any more (no new batch, no request of a later      *)
(* batch), and the failed write is never reported as an error: no error    *)
(* record carrying the write failure is handed to the writer.              *)
(***************************************************************************)
WriteFailureRecord == StatusRecord("Error: " \o WriteFailed, 100)
Attempted == rejected \cup {out[k] : k \in 1..Len(out)}

C17_NoNewBatch ==
  ~connected => \A l \in Logins : workers[l].st = "idle" => workers'[l].st = "idle"

C17_SilentAbort ==
  /\ [](~connected => WriteFailureRecord \notin Attempted)
  /\ [][C17_NoNewBatch]_vars

\* What does hold: after a failed write no worker is started, and a failed
\* write of a status record is never reported as an error.
C17_NoNewBatchAfterFailedWrite == [][C17_NoNewBatch]_vars

C17_StatusWriteFailureIsSilent ==
  (~connected /\ \A r \in rejected : IsStatus(r)) => WriteFailureRecord \notin Attempted

\* A worker's sentinel is rejected, the worker returns null and the run ends
\* without a later batch.
C17_SentinelRejectedInWorker ==
  /\ ~connected /\ pc = "closed"
  /\ \E l \in Candidates :
       /\ workers[l] = [st |-> "resolved", result |-> Null]
       /\ \E c \in {l} \X Kinds : calls[c].st = "thrown" /\ calls[c].err = StreamClosed
  /\ \E l \in Candidates : workers[l].st = "idle"

(***************************************************************************)
(* C18.  Under SpecLive: every run eventually closes the response stream.  *)
(***************************************************************************)
C18_StreamEventuallyCloses == <>(pc = "closed")

\* The paths to the close: retry exhaustion (the witness), success, cache
\* hit, validation failure, fatal error, disconnect.
C18_Witness ==
  /\ pc = "closed"
  /\ calls[RepoGet].st = "thrown" /\ calls[RepoGet].err = MaxRetriesReached
  /\ calls[RepoGet].invoked = maxRetries

C18_ClosedAfterSuccess == pc = "closed" /\ connected /\ cachedResult = Null /\ ResultRecords # {}
C18_ClosedAfterCacheHit == pc = "closed" /\ connected /\ cachedResult # Null
C18_ClosedAfterValidationFailure ==
  pc = "closed" /\ Len(out) = 1 /\ out[1].status \in ValidationMessages
C18_ClosedAfterFatalError ==
  /\ pc = "closed"
  /\ \E c \in PipelineCalls : calls[c].st = "thrown" /\ calls[c].err \in OtherErrorMessages
C18_ClosedAfterDisconnect == pc = "closed" /\ ~connected /\ rejected # {}

(***************************************************************************)
(* C19.  Under Spec: leaving the sentinels (-1) out, the progress values   *)
(* of the status records never decrease along the stream; the two phase    *)
(* records before enrichment are below 30, the record of the batch that    *)
(* starts at index i of n candidates carries 30 + (i / n) * 60, and 100 is *)
(* carried only by the completion record or an error record.               *)
(***************************************************************************)
NormalRecords == {k \in 1..Len(out) : IsStatus(out[k]) /\ ~IsSentinel(out[k])}
PhaseStatuses == {"Fetching repository information", "Fetching stargazers and forks"}
CompletionStatuses == {"Analysis complete", "Analysis complete (cached)"}
BatchStatus(i, n) ==
  "Processing users " \o ToString(i + 1) \o " to " \o ToString(Min(i + CONCURRENCY_LIMIT, n))
BatchRecords ==
  {k \in NormalRecords :
     \E i \in 0..(Len(usersToProcess) - 1) : out[k].status = BatchStatus(i, Len(usersToProcess))}

C19_ProgressNeverDecreases ==
  /\ \A j, k \in NormalRecords : j < k => out[j].progress <= out[k].progress
  /\ \A k \in NormalRecords :
       LET r == out[k]
           n == Len(usersToProcess)
       IN \/ r.status \in PhaseStatuses /\ r.progress >= 0 /\ r.progress < 30
          \/ r.status = "Retrieving cached result" /\ r.progress = 50
          \/ \E i \in 0..(n - 1) :
               /\ r.status = BatchStatus(i, n)
               /\ r.progress = 30 + (60 * i) \div n
               /\ r.progress < 100
          \/ r.progress = 100 /\ (r.status \in CompletionStatuses \/ IsErrorRecord(r))

\* A finished run with two batch records, a sentinel between them and the
\* completion record.
C19_Witness ==
  /\ pc = "closed" /\ connected /\ ResultRecords # {}
  /\ Cardinality(BatchRecords) >= 2
  /\ \E j, l \in BatchRecords, k \in 1..Len(out) : j < k /\ k < l /\ IsSentinel(out[k])
  /\ \E k \in NormalRecords : out[k] = StatusRecord("Analysis complete", 100)

(***************************************************************************)
(* C20.  Under SpecCache: a read of either table is a hit if and only if   *)
(* the table holds a row for the key whose age, now - timestamp, is less   *)
(* than CACHE_TTL; a row of age CACHE_TTL or more is a miss, whatever its  *)
(* payload.                                                                *)
(***************************************************************************)
FreshRepoRows ==
  {row \in repo_cache : row.repo_id = RequestKey(State) /\ now - row.timestamp < CACHE_TTL}
FreshUserRows(login) ==
  {row \in user_cache : row.login = login /\ now - row.timestamp < CACHE_TTL}

C20_HitIffYoungerThanTTL ==
  /\ pc = "getCachedRepo" => (cachedResult # Null <=> FreshRepoRows # {})
  /\ pc = "getCachedUser" =>
       (workers[usersToProcess[1]].result # Null <=> FreshUserRows(usersToProcess[1]) # {})

\* A repository read of a row whose age is exactly CACHE_TTL: a miss.
C20_Witness ==
  /\ pc = "getCachedRepo"
  /\ \E row \in repo_cache :
       row.repo_id = RequestKey(State) /\ now - row.timestamp = CACHE_TTL
  /\ cachedResult = Null

\* The same of a user read; and the hits one tick earlier, of each payload.
C20_UserMissAtTTL ==
  /\ pc = "getCachedUser"
  /\ \E row \in user_cache :
       row.login = usersToProcess[1] /\ now - row.timestamp = CACHE_TTL
  /\ workers[usersToProcess[1]].result = Null

C20_RepoHitBeforeTTL(data) ==
  /\ pc = "getCachedRepo"
  /\ \E row \in repo_cache :
       row.repo_id = RequestKey(State) /\ now - row.timestamp = CACHE_TTL - 1
  /\ cachedResult = Some(data)

C20_RepoHitOfOnePayload == C20_RepoHitBeforeTTL(OldResult)
C20_RepoHitOfOtherPayload == \E data \in RepoPayloads \ {OldResult} : C20_RepoHitBeforeTTL(data)

C20_UserHitBeforeTTL ==
  /\ pc = "getCachedUser"
  /\ \E row \in user_cache :
       row.login = usersToProcess[1] /\ now - row.timestamp = CACHE_TTL - 1
  /\ workers[usersToProcess[1]].result \in {Some(d) : d \in UserPayloads("alice")}

(***************************************************************************)
(* C21.  Under Spec: a request with a credential whose URL ends with a     *)
(* slash is taken as the URL without it: no error record about the         *)
(* assignment to repoUrl is handed to the writer, and once POST has        *)
(* started the request is in the pipeline of the bare URL, served from the *)
(* cache under the bare URL's key or with its metadata fetch started.      *)
(***************************************************************************)
SlashErrorRecord == StatusRecord("Error: " \o ConstAssignment, 100)

C21_TrailingSlashAccepted ==
  (req.repoUrl = UrlTrailingSlash /\ apiKey(req)) =>
    /\ SlashErrorRecord \notin Attempted
    /\ pc # "start" =>
         \/ cachedResult # Null
         \/ calls[RepoGet].st # "idle"
         \/ getCachedRepo(repo_cache, RepoIdentifier(req.repoUrl), now) = Null /\ ~connected

\* What the code does with such a request: the error record and the close,
\* with no lookup and no upstream call.
C21_TrailingSlashRejected ==
  (req.repoUrl = UrlTrailingSlash /\ apiKey(req) /\ pc = "closed" /\ connected) =>
    /\ out = <<SlashErrorRecord>>
    /\ cachedResult = Null
    /\ \A c \in CallIds : calls[c].st = "idle"

(***************************************************************************)
(* C22.  Under Spec: a request without a credential, or whose URL is       *)
(* missing, empty or lacks an owner or a repository segment, starts no     *)
(* upstream call, causes no retry and no write to either cache, and gets   *)
(* one record, an error at progress 100, as the first and only record of   *)
(* its stream.  The record names the problem, except for a body without    *)
(* repoUrl, whose record carries the TypeError of the read of endsWith.    *)
(***************************************************************************)
MalformedUrls == {Undefined, UrlEmpty, UrlNoOwner, UrlOneSegment}
NoCredential == ~req.userApiKey /\ ~req.envApiKey
InvalidRequest == NoCredential \/ req.repoUrl \in MalformedUrls
ValidationRecord ==
  StatusRecord(IF NoCredential THEN "GitHub API key is required"
               ELSE IF req.repoUrl = Undefined THEN "Error: " \o UndefinedRead
               ELSE IF req.repoUrl = UrlEmpty THEN "Repository URL is required"
               ELSE "Invalid repository URL", 100)

C22_Reported ==
  InvalidRequest =>
    /\ \A c \in CallIds : calls[c].st = "idle" /\ calls[c].invoked = 0
    /\ NumSentinels = 0
    /\ IsErrorRecord(ValidationRecord)
    /\ Attempted \subseteq {ValidationRecord}
    /\ (pc # "start" /\ connected) => out = <<ValidationRecord>>
    /\ pc \in {"start", "finally", "closed"}

C22_CachesUntouched == InvalidRequest => UNCHANGED <<repo_cache, user_cache>>

C22_InvalidRequestIsTurnedAway == []C22_Reported /\ [][C22_CachesUntouched]_vars

C22_Witness ==
  /\ NoCredential /\ req.repoUrl = UrlOwnerRepo
  /\ pc = "closed" /\ connected
  /\ out = <<StatusRecord("GitHub API key is required", 100)>>
  /\ \E r \in repo_cache : r.repo_id = UrlOwnerRepo /\ now - r.timestamp < CACHE_TTL

\* The same of each malformed URL.
C22_MalformedTurnedAway(url) ==
  ~NoCredential /\ req.repoUrl = url /\ pc = "closed" /\ connected /\ out = <<ValidationRecord>>
C22_MissingUrl == C22_MalformedTurnedAway(Undefined)
C22_EmptyUrl == C22_MalformedTurnedAway(UrlEmpty)
C22_NoOwner == C22_MalformedTurnedAway(UrlNoOwner)
C22_OneSegment == C22_MalformedTurnedAway(UrlOneSegment)

(***************************************************************************)
(* C23.  Under SpecClient: no request the page has sent carries the key    *)
(* the user entered, in a header or in the body, and the request POST      *)
(* reads has no caller-supplied key.                                       *)
(***************************************************************************)
C23_KeyStaysInBrowser ==
  /\ \A request \in sent :
       /\ \A h \in request.headers : h[2] # UserKey
       /\ request.body.repoUrl # UserKey
  /\ ~req.userApiKey

\* What does hold: the body carries the URL only, and a request carries
\* the key header exactly when it carries the user's key in it.
C23_BodyCarriesNoKey ==
  \A request \in sent :
    /\ DOMAIN request.body = {"repoUrl"} /\ request.body.repoUrl \in ClientUrls
    /\ \A h \in request.headers : h[1] = "X-GitHub-Api-Key" => h[2] = UserKey

(***************************************************************************)
(* C24.  Under SpecScore: of two profiles with the same followers,         *)
(* contributions and recentActivity, the one with more stars has the       *)
(* strictly larger score (scores in tenths).                               *)
(***************************************************************************)
SameButStars(p, q) ==
  /\ p.followers = q.followers
  /\ p.contributions = q.contributions
  /\ p.recentActivity = q.recentActivity

C24_MoreStarsLargerScore ==
  \A j, k \in 1..Len(userDetails) :
    (SameButStars(userDetails[j], userDetails[k])
       /\ userDetails[j].stars < userDetails[k].stars)
      => userDetails[j].score < userDetails[k].score

C24_Witness ==
  /\ Len(userDetails) = 2
  /\ SameButStars(userDetails[1], userDetails[2])
  /\ userDetails[1].followers = MaxCount /\ userDetails[1].contributions = MaxCount
  /\ userDetails[1].recentActivity = MaxCount
  /\ userDetails[2].stars = userDetails[1].stars + 1
  /\ userDetails[2].score = userDetails[1].score + 25


(***************************************************************************)
(* C25.  Under Spec: a worker of a batch after the first starts only in    *)
(* the step in which the pacing timer of 1 s fires.  That timer was set    *)
(* when every worker of the batches before had resolved, the step first    *)
(* writes the progress event of the new batch, and the workers it starts   *)
(* are workers of that batch.                                              *)
(***************************************************************************)
Started == {l \in Logins : workers[l].st = "idle" /\ workers'[l].st # "idle"}

C25_BatchStarts ==
  (Started # {} /\ batchStart' > 0) =>
    /\ pc = "pacing"
    /\ pacing.timer = 1000
    /\ pacing' = [timer |-> 0, slept |-> pacing.slept + 1000]
    /\ batchStart' = batchStart + CONCURRENCY_LIMIT
    /\ \A k \in 1..batchStart' : workers[usersToProcess[k]].st = "resolved"
    /\ \A l \in Started :
         \E k \in 1..Len(BatchOf(usersToProcess, batchStart')) :
            BatchOf(usersToProcess, batchStart')[k] = l
    /\ out' = Append(out, StatusRecord(BatchStatus(batchStart', Len(usersToProcess)),
                                       BatchProgress(batchStart', Len(usersToProcess))))

\* Between two batches the loop has slept one pacing delay for each batch
\* that is complete.
C25_SleptPerBatch ==
  pc = "batch" => pacing = [timer |-> 0, slept |-> 1000 * (batchStart \div CONCURRENCY_LIMIT)]

C25_NextBatchAfterPacing == [][C25_BatchStarts]_vars /\ []C25_SleptPerBatch

\* The second batch is running: its event is the last batch event written,
\* the first batch has resolved and one delay has been slept.
C25_Witness ==
  /\ pc = "batch" /\ batchStart = CONCURRENCY_LIMIT
  /\ \E l \in Logins : l = usersToProcess[batchStart + 1] /\ workers[l].st = "running"
  /\ workers[usersToProcess[1]].st = "resolved"
  /\ pacing.slept = 1000
  /\ \E k \in 1..Len(out) :
       out[k] = StatusRecord(BatchStatus(batchStart, Len(usersToProcess)),
                             BatchProgress(batchStart, Len(usersToProcess)))


(***************************************************************************)
(* C26.  Under Spec, in a run that missed the repository cache: the        *)
(* metadata request is made in the step that has written the event of      *)
(* progress 10; the stargazer and fork requests are made once the metadata *)
(* request has returned, in the step that has written the event of         *)
(* progress 20; the requests of a worker are made once both collections    *)
(* have returned, in the step that has written the event of its batch; and *)
(* the result record is written after 'Analysis complete', when every      *)
(* worker of every batch has resolved.                                     *)
(***************************************************************************)
Invoked(c) == calls[c].invoked > 0
FirstInvoked(c) == calls[c].invoked = 0 /\ calls'[c].invoked > 0
Announces(status, progress) == out' = Append(out, StatusRecord(status, progress))
Collections == {Stargazers, Forks}
BatchStartOf(login) ==
  CHOOSE i \in 0..Len(usersToProcess) :
    \E k \in 1..Len(BatchOf(usersToProcess, i)) :
       /\ BatchOf(usersToProcess, i)[k] = login
       /\ i % CONCURRENCY_LIMIT = 0

C26_Order ==
  cachedResult = Null =>
    /\ \A c \in Collections : Invoked(c) => calls[RepoGet].st = "returned"
    /\ \A c \in UserCalls :
         Invoked(c) => \A d \in Collections : calls[d].st = "returned"
    /\ ResultRecords # {} =>
         /\ \A k \in 1..Len(usersToProcess) : workers[usersToProcess[k]].st = "resolved"
         /\ \A l \in Logins : workers[l].st # "running"
         /\ \E k \in 1..Len(out) :
              /\ out[k] = StatusRecord("Analysis complete", 100)
              /\ \A r \in ResultRecords : k < r

C26_Announced ==
  /\ FirstInvoked(RepoGet) => Announces("Fetching repository information", 10)
  /\ \A c \in Collections :
       FirstInvoked(c) => Announces("Fetching stargazers and forks", 20)
  /\ \A c \in UserCalls :
       FirstInvoked(c) =>
         Announces(BatchStatus(BatchStartOf(c[1])', Len(usersToProcess')),
                   BatchProgress(BatchStartOf(c[1])', Len(usersToProcess')))

C26_PhasesInOrder == []C26_Order /\ [][C26_Announced]_vars

\* A fresh run that went through the four phases and wrote its result.
C26_Witness ==
  /\ cachedResult = Null /\ ResultRecords # {}
  /\ Invoked(RepoGet) /\ \A c \in Collections : Invoked(c)
  /\ \E c \in UserCalls : Invoked(c)
  /\ Len(usersToProcess) = MAX_USERS_TO_PROCESS


(***************************************************************************)
(* C27.  Under Spec: when a worker that missed the user cache resolves     *)
(* with a profile, the step leaves exactly one row for its login in        *)
(* user_cache, holding that profile and the time of the write, and leaves  *)
(* the rows of the other logins alone; when it resolves with null, the     *)
(* step leaves user_cache as it was.                                       *)
(***************************************************************************)
RowsOf(table, login) == {r \in table : r.login = login}
Enriched(login) == workers[login].st = "running" /\ workers'[login].st = "resolved"

C27_Step ==
  \A login \in Logins :
    Enriched(login) =>
      IF workers'[login].result # Null
      THEN /\ RowsOf(user_cache', login) =
                {[login |-> login,
                  data |-> JsonStringify(workers'[login].result[1]),
                  timestamp |-> now']}
           /\ \A r \in RowsOf(user_cache, login) : r.timestamp <= now'
           /\ user_cache' \ RowsOf(user_cache', login) =
                user_cache \ RowsOf(user_cache, login)
      ELSE user_cache' = user_cache

C27_ProfileCachedOnReturn == [][C27_Step]_vars

\* The one row of alice holds the profile her worker returned, which is not
\* the profile an earlier run had left, and bob's worker returned null and
\* left no row.
C27_Witness ==
  /\ workers["alice"].st = "resolved" /\ workers["alice"].result # Null
  /\ calls[UserCall("alice", "user")].st = "returned"
  /\ RowsOf(user_cache, "alice") =
       {[login |-> "alice", data |-> JsonStringify(workers["alice"].result[1]),
         timestamp |-> MaxNow]}
  /\ workers["alice"].result[1] # OldProfile("alice")
  /\ workers["bob"].st = "resolved" /\ workers["bob"].result = Null
  /\ \E kind \in Kinds : calls[UserCall("bob", kind)].st = "thrown"
  /\ RowsOf(user_cache, "bob") = {}


(***************************************************************************)
(* C28.  Under SpecEnrich: the profile a worker has built from the         *)
(* upstream has for stars the sum of stargazers_count over the first page  *)
(* of the user's repositories, for contributions public_repos plus         *)
(* public_gists, for recentActivity the number of events on the first page *)
(* of events, and for score (in tenths) 25 stars + 20 followers +          *)
(* contributions + recentActivity; and each of the worker's calls asks for *)
(* the first page only and holds one response when it has returned.        *)
(***************************************************************************)
FirstPageStars(login) ==
  SubSeq(UpstreamRepoStars(login), 1, Min(PER_PAGE, Len(UpstreamRepoStars(login))))
FirstPageEvents(login) == Min(PER_PAGE, UpstreamEvents(login))
Built(login) ==
  /\ workers[login].st = "resolved" /\ workers[login].result # Null
  /\ \A kind \in Kinds : calls[UserCall(login, kind)].st = "returned"

C28_ProfileFromFirstPages ==
  /\ \A login \in Logins :
       Built(login) =>
         LET p == workers[login].result[1]
             u == UpstreamUser(login)
         IN /\ p.stars = SumSeq(FirstPageStars(login))
            /\ p.followers = u.followers
            /\ p.contributions = u.public_repos + u.public_gists
            /\ p.recentActivity = FirstPageEvents(login)
            /\ p.score = 25 * p.stars + 20 * p.followers + p.contributions
                            + p.recentActivity
  /\ \A c \in UserCalls :
       /\ calls[c].page \in {0, 1}
       /\ calls[c].st = "returned" => Len(calls[c].acc) = 1

\* carol has three repositories and alice three events, one more than a
\* page: both profiles are built from the first page.
C28_Witness ==
  /\ Built("carol") /\ Built("alice")
  /\ Len(UpstreamRepoStars("carol")) > PER_PAGE
  /\ workers["carol"].result[1].stars < SumSeq(UpstreamRepoStars("carol"))
  /\ UpstreamEvents("alice") > PER_PAGE
  /\ workers["alice"].result[1].recentActivity = PER_PAGE


(***************************************************************************)
(* C29.  Under SpecCache: a read (getCachedRepo, getCachedUser) leaves     *)
(* both tables as they were, on a hit and on a miss over a stale row; a    *)
(* row leaves a table or enters it only in a write for its key; and a      *)
(* write to one table leaves the other as it was.                          *)
(***************************************************************************)
Changed(old, new) == (old \ new) \cup (new \ old)

C29_Step ==
  /\ pc' \in {"getCachedRepo", "getCachedUser"} =>
       UNCHANGED <<repo_cache, user_cache>>
  /\ pc' = "cacheRepo" =>
       /\ user_cache' = user_cache
       /\ \A r \in Changed(repo_cache, repo_cache') : r.repo_id = RequestKey(State)
  /\ pc' = "cacheUser" =>
       /\ repo_cache' = repo_cache
       /\ \A r \in Changed(user_cache, user_cache') : r.login = "alice"
  /\ Changed(repo_cache, repo_cache') # {} => pc' = "cacheRepo"
  /\ Changed(user_cache, user_cache') # {} => pc' = "cacheUser"

C29_ReadsLeaveTheCache == [][C29_Step]_vars

\* A read of the repository missed over a stale row, which is still there
\* with the timestamp of its write, next to the rows of the other key and
\* of the users.
C29_Witness ==
  /\ pc = "getCachedRepo" /\ cachedResult = Null
  /\ \E r \in repo_cache :
       r.repo_id = RequestKey(State) /\ now - r.timestamp >= CACHE_TTL
  /\ \E r \in repo_cache : r.repo_id = OtherRepoKey
  /\ user_cache # {}


(***************************************************************************)
(* C30.  Under SpecConcurrent: when the request's worker and the peer have *)
(* both missed the user cache for the same login and both have built a     *)
(* profile, user_cache holds exactly one row for the login, with the       *)
(* profile of the one that wrote last; each write leaves the writer's      *)
(* profile as the one row of the login; and a call returns null only when  *)
(* one of its own fetches was rejected.                                    *)
(***************************************************************************)
PeerBuilt ==
  /\ peer.st = "resolved" /\ peer.result # Null
  /\ \A kind \in Kinds : peer.calls[kind].st = "returned"
BothBuilt == PeerBuilt /\ Built(peer.login)
LastWritten ==
  IF peer.last THEN peer.result[1] ELSE workers[peer.login].result[1]

C30_OneRowOfLastWriter ==
  BothBuilt =>
    /\ Cardinality(RowsOf(user_cache, peer.login)) = 1
    /\ \A r \in RowsOf(user_cache, peer.login) : r.data = JsonStringify(LastWritten)

C30_NoFailureFromTheOther ==
  /\ (peer.st = "resolved" /\ peer.result = Null) =>
       \E kind \in Kinds : peer.calls[kind].st = "thrown"
  /\ \A login \in Logins :
       (workers[login].st = "resolved" /\ workers[login].result = Null) =>
         \E kind \in Kinds : calls[UserCall(login, kind)].st = "thrown"

C30_Write ==
  (peer.st = "running" /\ peer'.st = "resolved" /\ peer'.result # Null) =>
    RowsOf(user_cache', peer.login) =
      {[login |-> peer.login, data |-> JsonStringify(peer'.result[1]),
        timestamp |-> now']}

C30_ConcurrentEnrichment ==
  /\ []C30_OneRowOfLastWriter
  /\ []C30_NoFailureFromTheOther
  /\ [][C30_Write /\ C27_Step]_vars

\* Both calls missed and built a profile of the same login; the two
\* profiles differ, and the row is the one of the worker, which wrote last.
C30_Witness ==
  /\ BothBuilt
  /\ ~peer.last
  /\ peer.result[1] # workers[peer.login].result[1]
  /\ RowsOf(user_cache, peer.login) =
       {[login |-> peer.login,
         data |-> JsonStringify(workers[peer.login].result[1]),
         timestamp |-> now]}


(***************************************************************************)
(* C31.  Under Spec: in a result the run has written to repo_cache, the    *)
(* candidates that are missing are candidates one of whose fetches failed  *)
(* with an error other than the rate limit or at the retry cap.            *)
(***************************************************************************)
CachedByRun == {r \in repo_cache : r.repo_id = RequestKey(State) /\ WrittenByRun(r)}
CachedLogins(r) ==
  {JsonParse(r.data).influencers[k].login : k \in 1..Len(r.data.influencers)}
SentinelRejectedLogins ==
  {l \in Candidates : \E c \in {l} \X Kinds :
                        calls[c].st = "thrown" /\ calls[c].err = StreamClosed}

C31_OnlyFailedLoginsMissing ==
  \A r \in CachedByRun : (Candidates \ CachedLogins(r)) \subseteq FailedLogins

\* What holds: a candidate missing from the cached result had a fetch that
\* failed, or a fetch whose sentinel event could not be written.
C31_MissingFailedOrSentinelRejected ==
  \A r \in CachedByRun :
    (Candidates \ CachedLogins(r)) \subseteq (FailedLogins \cup SentinelRejectedLogins)

\* The cached result lacks a candidate none of whose fetches failed
\* upstream: the sentinel event of one of them was rejected.
C31_DroppedBySentinel ==
  \E r \in CachedByRun :
    \E l \in Candidates \ CachedLogins(r) :
      l \in SentinelRejectedLogins \ FailedLogins


(***************************************************************************)
(* C32.  Under Spec: once the worker of a login has returned, none of the  *)
(* login's fetches is in flight or asleep before a retry, none is invoked  *)
(* again, and no step writes a sentinel event for one of them.             *)
(***************************************************************************)
Pending(c) == calls[c].st \in {"inflight", "sleeping"}
ReturnedWorkers == {l \in Logins : workers[l].st = "resolved"}
Orphans == {c \in UserCalls : c[1] \in ReturnedWorkers /\ Pending(c)}

C32_NoPending == Orphans = {}

C32_NoLaterRequest ==
  \A c \in UserCalls :
    c[1] \in ReturnedWorkers =>
      /\ calls'[c].invoked = calls[c].invoked
      /\ (calls[c].st = "inflight" /\ calls'[c].st = "sleeping") =>
           out' # Append(out, StatusRecord(RateLimitMessage, -1))

C32_FetchesEndWithTheWorker == []C32_NoPending /\ [][C32_NoLaterRequest]_vars

\* What holds: a worker that returned a profile has no fetch left.
C32_NoOrphanOfAProfile ==
  \A c \in Orphans : workers[c[1]].result = Null

\* The worker of the first candidate returned null, and one of its fetches
\* is in flight while the second batch is running.
C32_OrphanInLaterBatch ==
  /\ pc = "batch" /\ batchStart > 0
  /\ \E c \in Orphans : c[1] = usersToProcess[1] /\ calls[c].st = "inflight"

\* The stream is closed and a fetch of a candidate whose worker has
\* returned is still pending, in a retry.
C32_OrphanPastTheEnd ==
  /\ pc = "closed"
  /\ \E c \in Orphans : calls[c].invoked > 1


(***************************************************************************)
(* C33.  Under SpecCandidates: once both collections have returned, the    *)
(* candidates are the first MAX_USERS_TO_PROCESS logins, in the order of   *)
(* their first occurrence, of the stargazers in arrival order followed by  *)
(* the fork owners; no fork owner that is not a stargazer is a candidate   *)
(* when a stargazer is not; the batches are consecutive slices of the      *)
(* candidates, and the workers started, if the batch event could be        *)
(* written, are those of the first.                                        *)
(***************************************************************************)
Arrived == upstream.stars \o upstream.forks
FirstOccurrences == {k \in 1..Len(Arrived) : \A j \in 1..(k - 1) : Arrived[j] # Arrived[k]}
NthFirstOccurrence(n) ==
  CHOOSE k \in FirstOccurrences : Cardinality({j \in FirstOccurrences : j < k}) = n - 1
StargazerLogins == {upstream.stars[k] : k \in 1..Len(upstream.stars)}
ForkOnlyLogins == {upstream.forks[k] : k \in 1..Len(upstream.forks)} \ StargazerLogins
BatchStarts == {i \in 0..Len(usersToProcess) : i % CONCURRENCY_LIMIT = 0}

C33_FirstCandidatesInOrder ==
  (calls[Stargazers].st = "returned" /\ calls[Forks].st = "returned") =>
    /\ Len(usersToProcess) = Min(MAX_USERS_TO_PROCESS, Cardinality(FirstOccurrences))
    /\ \A n \in 1..Len(usersToProcess) : usersToProcess[n] = Arrived[NthFirstOccurrence(n)]
    /\ (StargazerLogins \ Candidates # {}) => (ForkOnlyLogins \cap Candidates = {})
    /\ \A i \in BatchStarts :
         BatchOf(usersToProcess, i) =
           [k \in 1..(Min(i + CONCURRENCY_LIMIT, Len(usersToProcess)) - i) |->
              usersToProcess[i + k]]
    /\ pc \in {"batch", "pacing"} =>
         {l \in Logins : workers[l].st # "idle"} =
           {usersToProcess[k] : k \in 1..Min(CONCURRENCY_LIMIT, Len(usersToProcess))}
    /\ pc \notin {"batch", "pacing"} => \A l \in Logins : workers[l].st = "idle"

\* More logins than the cap: a stargazer arrived twice, every stargazer is
\* a candidate, and the fork owner who is no stargazer is not.
C33_Witness ==
  /\ calls[Stargazers].st = "returned" /\ calls[Forks].st = "returned"
  /\ Cardinality(FirstOccurrences) > MAX_USERS_TO_PROCESS
  /\ Len(usersToProcess) = MAX_USERS_TO_PROCESS
  /\ Len(upstream.stars) > Cardinality(StargazerLogins)
  /\ StargazerLogins = Candidates
  /\ ForkOnlyLogins # {}
  /\ workers[usersToProcess[1]].st # "idle"

=============================================================================
